---- MODULE Spec2Model ----
(***************************************************************************)
(* The retry executor of the Vortex Python SDK:                            *)
(*   VortexClient._execute_with_retry            (blocking)                *)
(*   AsyncVortexClient._execute_with_retry_async (suspending)              *)
(* together with VortexApiError, the error type it raises, and the         *)
(* connection and the public operations of the two clients, which run      *)
(* the executor.                                                           *)
(*                                                                         *)
(* Durations.  The code computes backoffs as Python numbers of             *)
(* milliseconds and hands time.sleep / asyncio.sleep a number of seconds.  *)
(* Here a millisecond value v is the integer v * Fixed.ms (hundredths of a *)
(* millisecond) and a second value s is the integer s * Fixed.sec          *)
(* (microseconds); a product that is not a whole number of hundredths is   *)
(* truncated.  backoff_multiplier m is the integer m * Fixed.mult and a    *)
(* jitter draw u of random.uniform(-0.1, 0.1) the integer u * Fixed.draw.  *)
(***************************************************************************)
EXTENDS Integers, Sequences, FiniteSets, TLC

VARIABLES
    ctor,     \* client object -> the arguments its constructor was given
    client,   \* client object -> its retry configuration (the self.* fields)
    inv,      \* invocation of the executor -> its frame (locals, position, trace)
    script,   \* call (a mock's side_effect list) -> the outcomes it has produced so far
    conn,     \* client object -> its _channel, _collections_stub and _points_stub
    channels, \* the channels created so far, in order of creation: "open" or "closed"
    task      \* thread or task of the program using a client -> what it runs and how far it is

vars == <<ctor, client, inv, script, conn, channels, task>>

(***************************************************************************)
(* Bounds of the model.                                                    *)
(***************************************************************************)
\* The largest max_retries a client is constructed with.
MaxRetriesBound == 3

\* The largest number of retry fields of a client that hold a value assigned
\* after its construction.
MaxAssigned == 1

\* The invocations of the executor a behaviour may hold.
Invocations == {"a", "b"}

\* Scales of the fixed-point representation (see above).
Fixed == [ms |-> 100, sec |-> 1000000, mult |-> 100, draw |-> 1000]

(***************************************************************************)
(* Python values.                                                          *)
(***************************************************************************)
None == "None"

\* What one attempt of the call can do: return a value or raise.  cls is the
\* class of the raised object ("return" for a returned value), code the
\* result of its code() accessor and details of its details() accessor
\* (None when the object has no such callable attribute), text its str().
\* A VortexApiError raised by the call carries its own status_code/details.
Outcome(cls, code, details, text) ==
    [cls |-> cls, code |-> code, details |-> details, text |-> text]

Returned == Outcome("return", None, None, "success")
ReturnedAfterRetry == Outcome("return", None, None, "success_after_retry")

AioUnavailable == Outcome("AioRpcError", "UNAVAILABLE", "Unavailable", "<AioRpcError UNAVAILABLE>")
AioExhausted == Outcome("AioRpcError", "RESOURCE_EXHAUSTED", "Resource exhausted", "<AioRpcError RESOURCE_EXHAUSTED>")
AioInvalid == Outcome("AioRpcError", "INVALID_ARGUMENT", "Invalid argument", "<AioRpcError INVALID_ARGUMENT>")
AioInternal == Outcome("AioRpcError", "INTERNAL", "Internal", "<AioRpcError INTERNAL>")
\* grpc.RpcError("...") with a code attribute patched in, as the sync tests build it.
RpcExhausted == Outcome("RpcError", "RESOURCE_EXHAUSTED", None, "Resource exhausted")
\* A bare grpc.RpcError("gRPC failure"): no code(), no details().
RpcBare == Outcome("RpcError", None, None, "gRPC failure")
\* A grpc.aio.AioRpcError whose code attribute is not callable (e.code = None).
AioBare == Outcome("AioRpcError", None, "Unavailable", "<AioRpcError without code>")
CallApiError == Outcome("VortexApiError", None, None, "Overall error during upsert: boom")
\* common_pb2.StatusCode.ERROR, a member of a protobuf enum: an integer that
\* is not 0 and that an f-string renders by its digits.  The generated
\* module is not part of the source; the number stands for the one it
\* gives.  Held as its digits, the form in which it is rendered and
\* compared.
StatusCodeERROR == "2"

\* VortexApiError(message, status_code=..., details=...): text is the message,
\* code and details the status_code and details fields.
CallApiErrorWithStatus ==
    Outcome("VortexApiError", StatusCodeERROR, "WAL is full", "Overall error during upsert: WAL is full")
CallValueError == Outcome("ValueError", None, None, "Unexpected Python error")
\* What the code field holds for a failure whose code() accessor is callable
\* and raises when it is called.
CodeRaises == "<code() raises>"
\* A grpc.aio.AioRpcError whose code() raises RuntimeError("code failed").
AioCodeRaises == Outcome("AioRpcError", CodeRaises, "Unavailable", "<AioRpcError code raises>")
\* A VortexTimeoutError raised by the call: a VortexException that is no
\* VortexApiError.
CallTimeoutError == Outcome("VortexTimeoutError", None, None, "Deadline exceeded")

Failures ==
    {AioUnavailable, AioExhausted, AioInvalid, AioInternal, RpcExhausted, RpcBare, AioBare,
     AioCodeRaises, CallApiError, CallApiErrorWithStatus, CallTimeoutError, CallValueError}

Outcomes == {Returned, ReturnedAfterRetry} \cup Failures

\* What aborts a call or a sleep from outside: KeyboardInterrupt in the
\* thread of a blocking call, asyncio.CancelledError in a cancelled task.
KeyboardInterrupt == Outcome("KeyboardInterrupt", None, None, "")
CancelledError == Outcome("CancelledError", None, None, "")

NoException == Outcome("None", None, None, None)

\* Variant of IsInstance: every raised object counts as an Exception.
IsInstanceFlat(e, cls) ==
    CASE cls = "AioRpcError" -> e.cls = "AioRpcError"
      [] cls = "RpcError" -> e.cls \in {"RpcError", "AioRpcError"}
      [] cls = "VortexApiError" -> e.cls = "VortexApiError"
      [] cls = "VortexException" -> e.cls \in {"VortexException", "VortexApiError",
                                               "VortexTimeoutError", "VortexConnectionError"}
      [] cls = "Exception" -> TRUE
      [] OTHER -> FALSE

\* isinstance(e, cls) along the class hierarchy
\*   BaseException > Exception > grpc.RpcError > grpc.aio.AioRpcError
\*   BaseException > Exception > VortexException > VortexApiError,
\*       VortexTimeoutError, VortexConnectionError
\*   BaseException > Exception > ValueError, Exception > RuntimeError
\*   BaseException > KeyboardInterrupt, BaseException > asyncio.CancelledError.
IsInstance(e, cls) ==
    CASE cls = "AioRpcError" -> e.cls = "AioRpcError"
      [] cls = "RpcError" -> e.cls \in {"RpcError", "AioRpcError"}
      [] cls = "VortexApiError" -> e.cls = "VortexApiError"
      [] cls = "VortexException" -> e.cls \in {"VortexException", "VortexApiError",
                                               "VortexTimeoutError", "VortexConnectionError"}
      [] cls = "Exception" -> e.cls \in {"RpcError", "AioRpcError", "ValueError", "RuntimeError",
                                         "VortexException", "VortexApiError",
                                         "VortexTimeoutError", "VortexConnectionError"}
      [] OTHER -> FALSE

Min(x, y) == IF x <= y THEN x ELSE y

(***************************************************************************)
(* exceptions.py: VortexApiError and VortexException.                      *)
(***************************************************************************)
\* What an invocation ends with: a returned value or a raised error.
Result(kind, message, status_code, details) ==
    [kind |-> kind, message |-> message, status_code |-> status_code, details |-> details]

NoResult == Result(None, None, None, None)

Truthy(v) == v # None /\ v # ""

\* VortexApiError(message, grpc_error=e): status_code and details are taken
\* from e's accessors; without a details() accessor details is str(e).  A
\* code() that raises is passed over ("except Exception: pass") and
\* status_code keeps its default.
VortexApiError(message, grpc_error) ==
    LET status_code == IF grpc_error.code \notin {None, CodeRaises} THEN grpc_error.code
                       ELSE None
        details == IF grpc_error.details # None THEN grpc_error.details
                   ELSE grpc_error.text
    IN  Result("VortexApiError", message, status_code, details)

\* VortexException(message)
VortexException(message) == Result("VortexException", message, None, None)

\* An exception no handler of the executor catches leaves it as it is.
Propagates(e) == Result(e.cls, e.text, None, None)

\* What e.code() raised, for a failure whose code() raises.
CodeFailed == Outcome("RuntimeError", None, None, "code failed")

\* str(error): VortexApiError.__str__, Exception.__str__ for the rest.
Str(r) ==
    IF r.kind = "VortexApiError"
    THEN r.message
         \o (IF Truthy(r.status_code) THEN " (Status Code: " \o r.status_code \o ")" ELSE "")
         \o (IF Truthy(r.details) THEN " Details: " \o r.details ELSE "")
    ELSE r.message

(***************************************************************************)
(* The arithmetic of the retry loop.                                       *)
(***************************************************************************)
MsPerSecond == 1000

\* A configured number of milliseconds as a fixed-point millisecond value.
ToMs(v) == v * Fixed.ms

\* Variant of InitialBackoff: the initial backoff is lowered to the cap.
InitialBackoffCapped(self) == Min(ToMs(self.max_backoff_ms), ToMs(self.initial_backoff_ms))

\* Variant of InitialBackoff: the backoff is carried over from the
\* invocations before, starting from the largest value any has reached.
InitialBackoffCarried(self) ==
    LET all == {inv[j].current_backoff_ms : j \in DOMAIN inv} \cup {ToMs(self.initial_backoff_ms)}
    IN  CHOOSE x \in all : \A y \in all : y <= x

\* "current_backoff_ms = self.initial_backoff_ms"
InitialBackoff(self) == ToMs(self.initial_backoff_ms)

\* Variant of IsRetryable: the membership test is dropped, any code is retried.
IsRetryableAnyCode(e, retryable_status_codes) == e.code # None

\* Variant of IsRetryable: a failure without a code accessor is retried.
IsRetryableWithoutCode(e, retryable_status_codes) ==
    e.code = None \/ e.code \in retryable_status_codes

\* e.code() in self.retryable_status_codes, guarded by hasattr/callable.
IsRetryable(e, retryable_status_codes) ==
    e.code # None /\ e.code \in retryable_status_codes

\* Variant of Jittered: the sleep is held down to 2500 ms, the cap of the
\* policies here.
JitteredClamped(backoff_ms, draw) ==
    Min(2500 * Fixed.ms, (backoff_ms * (Fixed.draw + draw)) \div Fixed.draw)

\* sleep_duration_ms *= (1 + random.uniform(-0.1, 0.1))
Jittered(backoff_ms, draw) == (backoff_ms * (Fixed.draw + draw)) \div Fixed.draw

\* sleep_duration_ms = current_backoff_ms, jittered if self.retry_jitter
SleepDurationMs(current_backoff_ms, retry_jitter, draw) ==
    IF retry_jitter THEN Jittered(current_backoff_ms, draw) ELSE current_backoff_ms

\* sleep_duration_ms / 1000.0: the argument of time.sleep / asyncio.sleep
SleepSeconds(sleep_duration_ms) ==
    (sleep_duration_ms * (Fixed.sec \div MsPerSecond)) \div Fixed.ms

\* Variant of NextBackoff: the cap is not applied.
NextBackoffUncapped(current_backoff_ms, max_backoff_ms, backoff_multiplier) ==
    (current_backoff_ms * backoff_multiplier) \div Fixed.mult

\* Variant of NextBackoff: the cap is applied to the backoff before it is
\* multiplied.
NextBackoffCapsFirst(current_backoff_ms, max_backoff_ms, backoff_multiplier) ==
    (Min(ToMs(max_backoff_ms), current_backoff_ms) * backoff_multiplier) \div Fixed.mult

\* min(self.max_backoff_ms, current_backoff_ms * self.backoff_multiplier)
NextBackoff(current_backoff_ms, max_backoff_ms, backoff_multiplier) ==
    Min(ToMs(max_backoff_ms), (current_backoff_ms * backoff_multiplier) \div Fixed.mult)

(***************************************************************************)
(* Construction of a client: the retry configuration.                      *)
(***************************************************************************)
\* The client classes; each has its own executor.
Clients == {"VortexClient", "AsyncVortexClient"}

\* The connection fields of a client: _channel is a channel, named by its
\* position in channels, and a stub the channel it is built on; a field that
\* is None holds NoChannel.
NoChannel == 0

Disconnected ==
    [_channel |-> NoChannel, _collections_stub |-> NoChannel, _points_stub |-> NoChannel]

ConnectedOn(ch) == [_channel |-> ch, _collections_stub |-> ch, _points_stub |-> ch]

\* The connection of a constructed client: VortexClient.__init__ connects,
\* AsyncVortexClient.__init__ leaves the three fields None.
Constructed(c, ch) == IF c = "VortexClient" THEN ConnectedOn(ch) ELSE Disconnected

\* The executor run on its own: the clients as constructed, no public
\* operation in progress.
NoOperations ==
    /\ conn = [c \in Clients |-> Constructed(c, 1)]
    /\ channels = <<"open">>
    /\ task = <<>>

\* The default of retryable_status_codes.
DefaultRetryableCodes == {"UNAVAILABLE", "RESOURCE_EXHAUSTED"}

\* Variant of Construct: a list given to the constructor is added to the
\* default codes.
ConstructMerged(args) ==
    [retries_enabled |-> args.retries_enabled,
     max_retries |-> args.max_retries,
     initial_backoff_ms |-> args.initial_backoff_ms,
     max_backoff_ms |-> args.max_backoff_ms,
     backoff_multiplier |-> args.backoff_multiplier,
     retry_jitter |-> args.retry_jitter,
     retryable_status_codes |->
         IF args.retryable_status_codes = <<>> THEN DefaultRetryableCodes
         ELSE DefaultRetryableCodes \cup args.retryable_status_codes[1]]

\* __init__: the retry fields are stored as given, none is validated; a
\* retryable_status_codes argument that is None or empty gives the default
\* ("retryable_status_codes or [...]").  The Optional[List] argument is <<>>
\* for None and <<codes>> for a list, taken as the set of its members.
Construct(args) ==
    [retries_enabled |-> args.retries_enabled,
     max_retries |-> args.max_retries,
     initial_backoff_ms |-> args.initial_backoff_ms,
     max_backoff_ms |-> args.max_backoff_ms,
     backoff_multiplier |-> args.backoff_multiplier,
     retry_jitter |-> args.retry_jitter,
     retryable_status_codes |->
         IF args.retryable_status_codes = <<>> \/ args.retryable_status_codes[1] = {}
         THEN DefaultRetryableCodes
         ELSE args.retryable_status_codes[1]]

\* The constructor arguments the model draws from.
ConstructorArgs ==
    [retries_enabled : BOOLEAN,
     max_retries : -1 .. MaxRetriesBound,
     initial_backoff_ms : {50, 1000, 3000},
     max_backoff_ms : {2500},
     backoff_multiplier : {150, 200},
     retry_jitter : BOOLEAN,
     retryable_status_codes :
         {<<>>, <<{}>>, <<{"UNAVAILABLE"}>>, <<{"INTERNAL", "RESOURCE_EXHAUSTED"}>>}]

\* The values random.uniform(-0.1, 0.1) is drawn from (thousandths): the two
\* ends of its range.
JitterDraws == {-100, 100}

OperationNames == {"test_op"}

Calls == {"call1", "call2"}

(***************************************************************************)
(* One invocation of the executor.                                         *)
(***************************************************************************)
\* The frame of an invocation that has not started.  calls, outcomes,
\* sleeps, backoffs and draws record what the invocation did: the number of
\* times it invoked the call, what the call did each time, the arguments it
\* gave the sleep primitive, the current_backoff_ms each sleep was computed
\* from and the jitter drawn for it.
Frame(c, call, operation_name) ==
    [client |-> c, grpc_call |-> call, operation_name |-> operation_name,
     pc |-> "idle", retrying |-> FALSE,
     attempt |-> 0, range_end |-> 0,
     current_backoff_ms |-> 0, sleep_duration_ms |-> 0, last_exception |-> NoException,
     calls |-> 0, outcomes |-> <<>>, sleeps |-> <<>>, backoffs |-> <<>>, draws |-> <<>>,
     result |-> NoResult]

\* Variant of CaughtRpcClass: the first handler is "except Exception".
CaughtEverything(c) == "Exception"

\* Variant of CaughtRpcClass: the two copies of the executor have drifted, the
\* suspending one catching every exception in its first handler.
CaughtRpcClassDrifted(c) == IF c = "VortexClient" THEN "RpcError" ELSE "Exception"

\* The class each executor catches as a classified remote failure:
\* "except grpc.RpcError" and "except grpc.aio.AioRpcError".
CaughtRpcClass(c) == IF c = "VortexClient" THEN "RpcError" ELSE "AioRpcError"

\* The text that ends the fallback message of each executor.
FallbackSuffix(c) == IF c = "VortexClient" THEN "" ELSE " (async)"

\* The statements after the for loop.
AfterLoop(f, max_retries) ==
    IF f.last_exception # NoException
    THEN VortexApiError("Failed to " \o f.operation_name \o " after "
                            \o ToString(max_retries) \o " retries", f.last_exception)
    ELSE VortexException("Failed to " \o f.operation_name
                            \o " after all retries, but no gRPC exception was captured"
                            \o FallbackSuffix(f.client) \o ".")

\* Variant of NextAttempt: when the range is used up the loop is not left
\* but waits again.
NextAttemptSpins(f, attempt, max_retries) ==
    IF attempt < f.range_end
    THEN [f EXCEPT !.attempt = attempt, !.pc = "in_call", !.calls = @ + 1]
    ELSE [f EXCEPT !.pc = "sleeping"]

\* Variant of NextAttempt: the loop runs over range(max_retries).
NextAttemptShortRange(f, attempt, max_retries) ==
    IF attempt < f.range_end - 1
    THEN [f EXCEPT !.attempt = attempt, !.pc = "in_call", !.calls = @ + 1]
    ELSE [f EXCEPT !.pc = "done", !.result = AfterLoop(f, max_retries)]

\* The for statement takes the next attempt index of range(max_retries + 1),
\* fixed when the loop began, and invokes the call; when the range is used up
\* the statements after the loop run.
NextAttempt(f, attempt, max_retries) ==
    IF attempt < f.range_end
    THEN [f EXCEPT !.attempt = attempt, !.pc = "in_call", !.calls = @ + 1]
    ELSE [f EXCEPT !.pc = "done", !.result = AfterLoop(f, max_retries)]

\* The executor is entered.
Invoke(i) ==
    LET f == inv[i]
        self == client[f.client]
    IN  /\ f.pc = "idle"
        /\ inv' = [inv EXCEPT ![i] =
              IF ~self.retries_enabled
              THEN [f EXCEPT !.retrying = FALSE, !.pc = "in_call", !.calls = @ + 1]
              ELSE NextAttempt([f EXCEPT !.retrying = TRUE,
                                         !.last_exception = NoException,
                                         !.current_backoff_ms = InitialBackoff(self),
                                         !.range_end = self.max_retries + 1],
                               0, self.max_retries)]
        /\ UNCHANGED <<ctor, client, script, conn, channels, task>>

\* Variant of FailedTo: the error is built from the first failure captured.
FailedToFirst(f, e) == VortexApiError("Failed to " \o f.operation_name, f.outcomes[1])

\* "raise VortexApiError(f'Failed to {operation_name}', grpc_error=e)"
FailedTo(f, e) == VortexApiError("Failed to " \o f.operation_name, e)

\* Variant of Unexpected: the last handler re-raises what it caught.
UnexpectedLeaks(f, e) == Propagates(e)

\* "raise VortexException(f'An unexpected error occurred during {operation_name}: {e}')"
Unexpected(f, e) ==
    VortexException("An unexpected error occurred during " \o f.operation_name
                        \o ": " \o e.text)

\* Variant of Reraised: a new VortexApiError with the message of the one
\* caught is raised.
ReraisedStripped(e) == Result("VortexApiError", e.text, None, None)

\* A VortexApiError raised by the call is re-raised as it is.
Reraised(e) == Result("VortexApiError", e.text, e.code, e.details)

\* Variant of HandleNoRetry: "except Exception" comes first.
HandleNoRetryBroadExcept(f, e) == [f EXCEPT !.pc = "done", !.result = Unexpected(f, e)]

\* The handlers of the try statement for a call that raised e, in the branch
\* without retries.
HandleNoRetry(f, e) ==
    [f EXCEPT !.pc = "done",
              !.result = IF IsInstance(e, CaughtRpcClass(f.client)) THEN FailedTo(f, e)
                         ELSE IF IsInstance(e, "VortexApiError") THEN Reraised(e)
                         ELSE IF IsInstance(e, "Exception") THEN Unexpected(f, e)
                         ELSE Propagates(e)]

\* Variant of ShouldRetry: the budget test is off by one.
ShouldRetryOffByOne(f, e, self) ==
    IsRetryable(e, self.retryable_status_codes) /\ f.attempt <= self.max_retries

\* "if ... e.code() in self.retryable_status_codes: if attempt < self.max_retries:"
ShouldRetry(f, e, self) ==
    IsRetryable(e, self.retryable_status_codes) /\ f.attempt < self.max_retries

\* Variant of HandleInLoop: a retryable failure goes straight to the next
\* attempt, without the sleep.
HandleInLoopNoSleep(f, e, self, draw) ==
    IF IsInstance(e, CaughtRpcClass(f.client))
    THEN IF e.code = CodeRaises
         THEN [f EXCEPT !.last_exception = e, !.pc = "done", !.result = Propagates(CodeFailed)]
         ELSE
         IF ShouldRetry(f, e, self)
         THEN NextAttempt([f EXCEPT !.last_exception = e], f.attempt + 1, self.max_retries)
         ELSE [f EXCEPT !.last_exception = e, !.pc = "done", !.result = FailedTo(f, e)]
    ELSE [f EXCEPT !.pc = "done",
                   !.result = IF IsInstance(e, "VortexApiError") THEN Reraised(e)
                              ELSE IF IsInstance(e, "Exception") THEN Unexpected(f, e)
                              ELSE Propagates(e)]

\* Variant of HandleInLoop: a retryable failure at the last attempt is raised
\* with the message of the statement after the loop.
HandleInLoopExhausted(f, e, self, draw) ==
    IF IsInstance(e, CaughtRpcClass(f.client))
    THEN IF e.code = CodeRaises
         THEN [f EXCEPT !.last_exception = e, !.pc = "done", !.result = Propagates(CodeFailed)]
         ELSE
         IF ShouldRetry(f, e, self)
         THEN [f EXCEPT !.last_exception = e,
                        !.pc = "sleeping",
                        !.sleep_duration_ms =
                            SleepDurationMs(f.current_backoff_ms, self.retry_jitter, draw),
                        !.sleeps = Append(@, SleepSeconds(
                            SleepDurationMs(f.current_backoff_ms, self.retry_jitter, draw))),
                        !.backoffs = Append(@, f.current_backoff_ms),
                        !.draws = IF self.retry_jitter THEN Append(@, draw) ELSE @]
         ELSE [f EXCEPT !.last_exception = e, !.pc = "done",
                        !.result = IF IsRetryable(e, self.retryable_status_codes)
                                   THEN AfterLoop([f EXCEPT !.last_exception = e], self.max_retries)
                                   ELSE FailedTo(f, e)]
    ELSE [f EXCEPT !.pc = "done",
                   !.result = IF IsInstance(e, "VortexApiError") THEN Reraised(e)
                              ELSE IF IsInstance(e, "Exception") THEN Unexpected(f, e)
                              ELSE Propagates(e)]

\* The handlers of the try statement inside the retry loop.  The test of the
\* handler of the classified failures calls e.code(): what that call raises
\* is raised inside the handler, where no other handler of the statement
\* catches it, and leaves the executor.
HandleInLoop(f, e, self, draw) ==
    IF IsInstance(e, CaughtRpcClass(f.client))
    THEN IF e.code = CodeRaises
         THEN [f EXCEPT !.last_exception = e, !.pc = "done", !.result = Propagates(CodeFailed)]
         ELSE
         IF ShouldRetry(f, e, self)
         THEN [f EXCEPT !.last_exception = e,
                        !.pc = "sleeping",
                        !.sleep_duration_ms =
                            SleepDurationMs(f.current_backoff_ms, self.retry_jitter, draw),
                        !.sleeps = Append(@, SleepSeconds(
                            SleepDurationMs(f.current_backoff_ms, self.retry_jitter, draw))),
                        !.backoffs = Append(@, f.current_backoff_ms),
                        !.draws = IF self.retry_jitter THEN Append(@, draw) ELSE @]
         ELSE [f EXCEPT !.last_exception = e, !.pc = "done", !.result = FailedTo(f, e)]
    ELSE [f EXCEPT !.pc = "done",
                   !.result = IF IsInstance(e, "VortexApiError") THEN Reraised(e)
                              ELSE IF IsInstance(e, "Exception") THEN Unexpected(f, e)
                              ELSE Propagates(e)]

\* Variant of Returns: the value is kept but the loop is not left.
ReturnsAndContinues(f, o) ==
    NextAttempt([f EXCEPT !.result = Result("return", o.text, None, None)],
                f.attempt + 1, f.range_end - 1)

\* "return grpc_call(*args, **kwargs)" when the call returns value o.
Returns(f, o) == [f EXCEPT !.pc = "done", !.result = Result("return", o.text, None, None)]

\* The call of invocation i returns or raises: outcome o, and the jitter
\* drawn should the executor sleep.
CallReturns(i, o, draw) ==
    LET f == inv[i]
        self == client[f.client]
        k == Len(f.outcomes) + 1
        g == [f EXCEPT !.outcomes = Append(@, o)]
    IN  /\ f.pc = "in_call"
        /\ IF k <= Len(script[f.grpc_call])
           THEN o = script[f.grpc_call][k] /\ UNCHANGED script
           ELSE script' = [script EXCEPT ![f.grpc_call] = Append(@, o)]
        /\ inv' = [inv EXCEPT ![i] =
              IF o.cls = "return"
              THEN Returns(g, o)
              ELSE IF f.retrying THEN HandleInLoop(g, o, self, draw)
              ELSE HandleNoRetry(g, o)]
        /\ UNCHANGED <<ctor, client, conn, channels, task>>

\* Variant of GrownBackoff: the backoff grows from the jittered sleep duration.
GrownBackoffLeaky(f, self) ==
    NextBackoff(f.sleep_duration_ms, self.max_backoff_ms, self.backoff_multiplier)

\* Variant of GrownBackoff: the backoff is kept on the client object, one
\* value for all its invocations, the largest any of them has reached.
GrownBackoffShared(f, self) ==
    LET all == {inv[j].current_backoff_ms : j \in {k \in DOMAIN inv : inv[k].client = f.client}}
    IN  NextBackoff(CHOOSE x \in all : \A y \in all : y <= x,
                    self.max_backoff_ms, self.backoff_multiplier)

\* "current_backoff_ms = min(self.max_backoff_ms,
\*                           current_backoff_ms * self.backoff_multiplier)"
GrownBackoff(f, self) ==
    NextBackoff(f.current_backoff_ms, self.max_backoff_ms, self.backoff_multiplier)

\* The sleep of invocation i is over: the backoff grows and the loop goes on.
SleepReturns(i) ==
    LET f == inv[i]
        self == client[f.client]
    IN  /\ f.pc = "sleeping"
        /\ inv' = [inv EXCEPT ![i] =
              NextAttempt([f EXCEPT !.current_backoff_ms = GrownBackoff(f, self)],
                          f.attempt + 1, self.max_retries)]
        /\ UNCHANGED <<ctor, client, script, conn, channels, task>>

(***************************************************************************)
(* Specifications.                                                         *)
(***************************************************************************)
\* One invocation, on a client of either class.
Init ==
    /\ \E args \in ConstructorArgs :
          /\ ctor = [c \in Clients |-> args]
          /\ client = [c \in Clients |-> Construct(args)]
    /\ \E c \in Clients, n \in OperationNames :
          inv = [i \in {"a"} |-> Frame(c, "call1", n)]
    /\ script = [m \in Calls |-> <<>>]
    /\ NoOperations

Next ==
    \/ \E i \in DOMAIN inv : Invoke(i)
    \/ \E i \in DOMAIN inv, o \in Outcomes, draw \in JitterDraws : CallReturns(i, o, draw)
    \/ \E i \in DOMAIN inv : SleepReturns(i)

Spec == Init /\ [][Next]_vars

\* The constructor arguments of the paired runs: a backoff that reaches the
\* cap, and max_retries one below the bound of the single runs.
PairArgs ==
    {args \in ConstructorArgs :
        /\ args.max_retries \in -1 .. MaxRetriesBound - 1
        /\ args.initial_backoff_ms = 1000
        /\ args.backoff_multiplier = 200
        /\ args.retryable_status_codes \in {<<>>, <<{"INTERNAL", "RESOURCE_EXHAUSTED"}>>}}

\* Two invocations given the same operation name and calls that behave alike
\* (equal side_effect lists): "a" on the blocking client, "b" on a client of
\* either class, the clients constructed with the same arguments.  Each
\* invocation draws its own jitter.
InitPair ==
    /\ \E args \in PairArgs :
          /\ ctor = [c \in Clients |-> args]
          /\ client = [c \in Clients |-> Construct(args)]
    /\ \E cb \in Clients, n \in OperationNames :
          inv = [i \in Invocations |->
                    Frame(IF i = "a" THEN "VortexClient" ELSE cb, "call1", n)]
    /\ script = [m \in Calls |-> <<>>]
    /\ NoOperations

SpecPair == InitPair /\ [][Next]_vars

\* One invocation whose calls and sleeps all end: a call that is in flight
\* eventually returns or raises, a sleep that has begun eventually is over
\* (time.sleep and asyncio.sleep return after the given time, and the
\* thread or the event loop then runs the executor on).  Nothing is assumed
\* of when, or whether, the executor is entered.
Fairness ==
    \A i \in Invocations :
        /\ WF_vars(i \in DOMAIN inv /\ \E o \in Outcomes, draw \in JitterDraws : CallReturns(i, o, draw))
        /\ WF_vars(i \in DOMAIN inv /\ SleepReturns(i))

SpecLive == Init /\ [][Next]_vars /\ Fairness

(***************************************************************************)
(* Assignment to the retry fields of a live client.                        *)
(***************************************************************************)
\* The retry fields are plain attributes: code outside the executor assigns
\* them (the tests do, "client.max_retries = 1").  The values assigned here.
Assigned ==
    [retries_enabled |-> BOOLEAN,
     max_retries |-> {0, MaxRetriesBound - 1},
     initial_backoff_ms |-> {50, 1000},
     max_backoff_ms |-> {1500, 2500},
     backoff_multiplier |-> {150, 200},
     retry_jitter |-> BOOLEAN,
     retryable_status_codes |-> {DefaultRetryableCodes, {"INTERNAL", "RESOURCE_EXHAUSTED"}}]

\* The retry fields of client c that no longer hold the constructor's value.
AssignedFields(c) == {fld \in DOMAIN Assigned : client[c][fld] # Construct(ctor[c])[fld]}

\* Another thread or task assigns value v to field fld of client c while an
\* invocation on c is suspended in its call or in its sleep.
Mutate(c, fld, v) ==
    /\ \E i \in DOMAIN inv : inv[i].client = c /\ inv[i].pc \in {"in_call", "sleeping"}
    /\ client[c][fld] # v
    /\ fld \in AssignedFields(c) \/ Cardinality(AssignedFields(c)) < MaxAssigned
    /\ client' = [client EXCEPT ![c][fld] = v]
    /\ UNCHANGED <<ctor, inv, script, conn, channels, task>>

\* One invocation, on a client whose fields are assigned while it runs.
InitMut ==
    /\ \E args \in PairArgs :
          /\ ctor = [c \in Clients |-> args]
          /\ client = [c \in Clients |-> Construct(args)]
    /\ \E c \in Clients, n \in OperationNames :
          inv = [i \in {"a"} |-> Frame(c, "call1", n)]
    /\ script = [m \in Calls |-> <<>>]
    /\ NoOperations

NextMut ==
    \/ Next
    \/ \E c \in Clients, fld \in DOMAIN Assigned : \E v \in Assigned[fld] : Mutate(c, fld, v)

SpecMut == InitMut /\ [][NextMut]_vars

(***************************************************************************)
(* Cancellation from outside.                                              *)
(***************************************************************************)
\* The signal that aborts what the executor of client c waits in.
Cancellation(c) == IF c = "VortexClient" THEN KeyboardInterrupt ELSE CancelledError

\* The call of invocation i is aborted: the signal is raised where the call
\* is invoked, inside the try statement.
CallCancelled(i) ==
    LET f == inv[i]
        self == client[f.client]
        e == Cancellation(f.client)
        g == [f EXCEPT !.outcomes = Append(@, e)]
    IN  /\ f.pc = "in_call"
        /\ inv' = [inv EXCEPT ![i] =
              IF f.retrying THEN HandleInLoop(g, e, self, 0) ELSE HandleNoRetry(g, e)]
        /\ UNCHANGED <<ctor, client, script, conn, channels, task>>

\* The sleep of invocation i is aborted: the signal is raised by time.sleep /
\* asyncio.sleep inside the except clause, where no handler of the try
\* statement applies.
SleepCancelled(i) ==
    LET f == inv[i]
    IN  /\ f.pc = "sleeping"
        /\ inv' = [inv EXCEPT ![i] =
              [f EXCEPT !.pc = "done", !.result = Propagates(Cancellation(f.client))]]
        /\ UNCHANGED <<ctor, client, script, conn, channels, task>>

NextCancel ==
    \/ Next
    \/ \E i \in DOMAIN inv : CallCancelled(i)
    \/ \E i \in DOMAIN inv : SleepCancelled(i)

\* One invocation, which may be cancelled in its call or in its sleep.
SpecCancel == Init /\ [][NextCancel]_vars

(***************************************************************************)
(* Invocations that share a client.                                        *)
(***************************************************************************)
\* The constructor arguments of the runs that share a client: no jitter, a
\* backoff that reaches the cap.
ConcArgs == {args \in PairArgs : ~args.retry_jitter}

\* Two invocations on one client, of either class, each with a call of its
\* own: two threads inside _execute_with_retry, or two tasks inside
\* _execute_with_retry_async; every interleaving of their steps is a
\* behaviour, one running after the other has ended among them.
InitConc ==
    /\ \E args \in ConcArgs :
          /\ ctor = [c \in Clients |-> args]
          /\ client = [c \in Clients |-> Construct(args)]
    /\ \E c \in Clients, n \in OperationNames :
          inv = [i \in Invocations |-> Frame(c, IF i = "a" THEN "call1" ELSE "call2", n)]
    /\ script = [m \in Calls |-> <<>>]
    /\ NoOperations

SpecConc == InitConc /\ [][Next]_vars

(***************************************************************************)
(* Two invocations on one client, retries switched off between them.       *)
(***************************************************************************)
\* "client.retries_enabled = False" on a constructed client, while none of
\* its invocations is running.
SwitchOff(c) ==
    /\ client[c].retries_enabled
    /\ \A i \in DOMAIN inv : inv[i].client = c => inv[i].pc \in {"idle", "done"}
    /\ client' = [client EXCEPT ![c].retries_enabled = FALSE]
    /\ UNCHANGED <<ctor, inv, script, conn, channels, task>>

\* The constructor arguments of these runs: retries enabled, no retry or one.
ZeroArgs == {args \in PairArgs : args.retries_enabled /\ args.max_retries \in {0, 1}}

\* Two invocations on one client, of either class, given the same operation
\* name and calls that behave alike (equal side_effect lists).
InitZero ==
    /\ \E args \in ZeroArgs :
          /\ ctor = [c \in Clients |-> args]
          /\ client = [c \in Clients |-> Construct(args)]
    /\ \E c \in Clients, n \in OperationNames :
          inv = [i \in Invocations |-> Frame(c, "call1", n)]
    /\ script = [m \in Calls |-> <<>>]
    /\ NoOperations

NextZero ==
    \/ Next
    \/ \E c \in Clients : SwitchOff(c)

SpecZero == InitZero /\ [][NextZero]_vars

(***************************************************************************)
(* Vocabulary of the properties, stated on the classes and codes           *)
(* themselves.                                                             *)
(***************************************************************************)
\* e is a classified remote failure for the executor of client c: an error
\* of the class its transport raises for a failed RPC (grpc.RpcError for the
\* blocking client, grpc.aio.AioRpcError for the suspending one).
ClassifiedBy(c, e) ==
    IF c = "VortexClient" THEN e.cls \in {"RpcError", "AioRpcError"}
    ELSE e.cls = "AioRpcError"

\* The code of e can be read: e has no code() accessor (no code then), or
\* the accessor returns.
CodeReadable(e) == e.code # CodeRaises

\* e is a classified failure whose code is in the retryable set of client c.
RetryableBy(c, e) ==
    ClassifiedBy(c, e) /\ e.code \in client[c].retryable_status_codes

\* e is an exception that is neither a classified remote failure for c nor
\* already a VortexApiError (which the executor passes through).
UnclassifiedBy(c, e) ==
    e.cls \notin {"return", "VortexApiError"} /\ ~ClassifiedBy(c, e)

Done(f) == f.pc = "done"

Last(seq) == seq[Len(seq)]

\* Every attempt so far failed with a retryable code.
AllRetryable(f) ==
    \A k \in 1 .. Len(f.outcomes) : RetryableBy(f.client, f.outcomes[k])

\* The detail text an ApiError built from failure e carries.
DetailOf(e) == IF e.details # None THEN e.details ELSE e.text

(***************************************************************************)
(* C1.  With retries enabled and max_retries >= 0 an invocation invokes    *)
(* the call at most max_retries + 1 times whatever the call does; when     *)
(* every attempt fails with a retryable code it ends having invoked the    *)
(* call exactly max_retries + 1 times and slept exactly max_retries times. *)
(***************************************************************************)
C1_BoundedAttempts ==
    \A i \in DOMAIN inv :
        LET f == inv[i]
            self == client[f.client]
        IN  (self.retries_enabled /\ self.max_retries >= 0) =>
               /\ f.calls <= self.max_retries + 1
               /\ (Done(f) /\ AllRetryable(f)) =>
                     /\ f.calls = self.max_retries + 1
                     /\ Len(f.sleeps) = self.max_retries

C1_Witness ==
    \E i \in DOMAIN inv :
        LET f == inv[i]
            self == client[f.client]
        IN  /\ self.retries_enabled /\ self.max_retries >= 2
            /\ Done(f) /\ AllRetryable(f)
            /\ f.calls = self.max_retries + 1
            /\ Len(f.sleeps) = self.max_retries

(***************************************************************************)
(* C2.  With retries disabled the executor invokes the call exactly once   *)
(* and never sleeps: a returned value is returned, a classified failure    *)
(* raises VortexApiError (ApiError) and an unclassified exception raises   *)
(* VortexException (UnexpectedError).                                      *)
(***************************************************************************)
C2_DisabledOneAttempt ==
    \A i \in DOMAIN inv :
        LET f == inv[i]
            self == client[f.client]
        IN  ~self.retries_enabled =>
               /\ f.calls = (IF f.pc = "idle" THEN 0 ELSE 1)
               /\ f.sleeps = <<>> /\ f.pc # "sleeping"
               /\ Done(f) =>
                     /\ Len(f.outcomes) = 1
                     /\ LET o == f.outcomes[1]
                        IN  /\ o.cls = "return" =>
                                 f.result = Result("return", o.text, None, None)
                            /\ ClassifiedBy(f.client, o) => f.result.kind = "VortexApiError"
                            /\ UnclassifiedBy(f.client, o) => f.result.kind = "VortexException"

C2_Witness ==
    \E i \in DOMAIN inv :
        LET f == inv[i]
            self == client[f.client]
        IN  /\ ~self.retries_enabled /\ self.max_retries >= 1
            /\ Done(f) /\ AllRetryable(f)
            /\ f.calls = 1 /\ f.sleeps = <<>>
            /\ f.result.kind = "VortexApiError"

(***************************************************************************)
(* C3.  With retries enabled, when the call fails with retryable codes on  *)
(* attempts 0..k-1 and returns on attempt k, the invocation ends there     *)
(* with the value of attempt k, after exactly k+1 calls and k sleeps:      *)
(* nothing is called or slept after the success.                           *)
(***************************************************************************)
C3_SuccessEndsTheInvocation ==
    \A i \in DOMAIN inv :
        LET f == inv[i]
            self == client[f.client]
        IN  self.retries_enabled =>
               \A n \in 1 .. Len(f.outcomes) :
                   (/\ f.outcomes[n].cls = "return"
                    /\ \A j \in 1 .. n - 1 : RetryableBy(f.client, f.outcomes[j])) =>
                       /\ n = Len(f.outcomes)
                       /\ Done(f)
                       /\ f.result = Result("return", f.outcomes[n].text, None, None)
                       /\ f.calls = n
                       /\ Len(f.sleeps) = n - 1

C3_Witness ==
    \E i \in DOMAIN inv :
        LET f == inv[i]
        IN  /\ client[f.client].retries_enabled
            /\ Done(f)
            /\ Len(f.outcomes) = 3
            /\ Last(f.outcomes) = ReturnedAfterRetry
            /\ f.result.message = "success_after_retry"
            /\ f.calls = 3 /\ Len(f.sleeps) = 2

(***************************************************************************)
(* C4.  With retries enabled a classified failure whose code is not in     *)
(* the retryable set ends the invocation at once with VortexApiError       *)
(* "Failed to {operation}", at whatever attempt it occurs: no sleep and no *)
(* call follows it, whatever budget remains.  The failures meant have a    *)
(* code that can be read: a failure whose code() raises has none.          *)
(***************************************************************************)
C4_NonRetryableShortCircuits ==
    \A i \in DOMAIN inv :
        LET f == inv[i]
            self == client[f.client]
        IN  self.retries_enabled =>
               \A n \in 1 .. Len(f.outcomes) :
                   (/\ ClassifiedBy(f.client, f.outcomes[n])
                    /\ CodeReadable(f.outcomes[n])
                    /\ f.outcomes[n].code \notin self.retryable_status_codes) =>
                       /\ n = Len(f.outcomes)
                       /\ Done(f)
                       /\ f.result.kind = "VortexApiError"
                       /\ f.result.message = "Failed to " \o f.operation_name
                       /\ f.calls = n
                       /\ Len(f.sleeps) = n - 1

C4_Witness ==
    \E i \in DOMAIN inv :
        LET f == inv[i]
            self == client[f.client]
        IN  /\ self.retries_enabled
            /\ Done(f)
            /\ Len(f.outcomes) = 2 /\ self.max_retries >= 3
            /\ Last(f.outcomes) = AioInvalid
            /\ f.result.kind = "VortexApiError"
            /\ Len(f.sleeps) = 1

(***************************************************************************)
(* C5.  An unclassified exception raised by the call is never retried: at  *)
(* any attempt, under any policy, the invocation ends with VortexException *)
(* (UnexpectedError) carrying the exception's text, and no sleep or call   *)
(* follows.                                                                *)
(***************************************************************************)
C5_UnexpectedNeverRetried ==
    \A i \in DOMAIN inv :
        LET f == inv[i]
        IN  \A n \in 1 .. Len(f.outcomes) :
                UnclassifiedBy(f.client, f.outcomes[n]) =>
                    /\ n = Len(f.outcomes)
                    /\ Done(f)
                    /\ f.result = Result("VortexException",
                           "An unexpected error occurred during " \o f.operation_name
                               \o ": " \o f.outcomes[n].text, None, None)
                    /\ f.calls = n
                    /\ Len(f.sleeps) = n - 1

C5_Witness ==
    \E i \in DOMAIN inv :
        LET f == inv[i]
            self == client[f.client]
        IN  /\ self.retries_enabled /\ self.max_retries >= 3
            /\ Done(f)
            /\ Len(f.outcomes) = 2
            /\ Last(f.outcomes) = CallValueError
            /\ f.result.kind = "VortexException"
            /\ Len(f.sleeps) = 1

(***************************************************************************)
(* C6.  A retryable classified failure at the final attempt (attempt index *)
(* = max_retries) raises VortexApiError with the exhaustion message        *)
(* "Failed to {operation} after {max_retries} retries", unlike the         *)
(* "Failed to {operation}" of a non-retryable failure.                     *)
(***************************************************************************)
C6_ExhaustionMessage ==
    \A i \in DOMAIN inv :
        LET f == inv[i]
            self == client[f.client]
        IN  (/\ self.retries_enabled /\ self.max_retries >= 0
             /\ Done(f) /\ Len(f.outcomes) >= 1
             /\ RetryableBy(f.client, Last(f.outcomes))
             /\ f.attempt = self.max_retries) =>
                /\ f.result.kind = "VortexApiError"
                /\ f.result.message = "Failed to " \o f.operation_name \o " after "
                                          \o ToString(self.max_retries) \o " retries"

(***************************************************************************)
(* C7.  When every attempt fails with a retryable code, the VortexApiError *)
(* raised after the last attempt carries the status code and detail of the *)
(* last attempt's failure, and its text is                                 *)
(* "Failed to {operation} (Status Code: {code}) Details: {detail}".        *)
(***************************************************************************)
C7_LastFailureSurfaced ==
    \A i \in DOMAIN inv :
        LET f == inv[i]
            self == client[f.client]
        IN  (/\ self.retries_enabled /\ self.max_retries >= 0
             /\ Done(f) /\ AllRetryable(f)) =>
                LET last == Last(f.outcomes)
                IN  /\ f.result.kind = "VortexApiError"
                    /\ f.result.status_code = last.code
                    /\ f.result.details = DetailOf(last)
                    /\ Str(f.result) = "Failed to " \o f.operation_name
                           \o " (Status Code: " \o last.code \o ")"
                           \o " Details: " \o DetailOf(last)

C7_Witness ==
    \E i \in DOMAIN inv :
        LET f == inv[i]
            self == client[f.client]
        IN  /\ self.retries_enabled /\ self.max_retries = 2
            /\ Done(f) /\ AllRetryable(f)
            /\ f.outcomes[1].code # Last(f.outcomes).code
            /\ f.result.status_code = "RESOURCE_EXHAUSTED"
            /\ f.result.details = "Resource exhausted"

(***************************************************************************)
(* C8.  With jitter disabled the i-th sleep of an invocation lasts b_i     *)
(* milliseconds, handed to the sleep primitive as b_i / 1000 seconds,      *)
(* where b_0 = initial_backoff_ms and                                      *)
(* b_{i+1} = min(max_backoff_ms, b_i * backoff_multiplier); for initial    *)
(* 1000, cap 2500 and multiplier 2 the sleeps are 1.0 s, 2.0 s, 2.5 s.     *)
(* Sleeps are in microseconds, backoffs in hundredths of a millisecond.    *)
(***************************************************************************)
RECURSIVE ExpectedBackoff(_, _)
ExpectedBackoff(self, n) ==
    IF n = 1 THEN self.initial_backoff_ms * 100
    ELSE LET grown == (ExpectedBackoff(self, n - 1) * self.backoff_multiplier) \div 100
             cap == self.max_backoff_ms * 100
         IN  IF cap < grown THEN cap ELSE grown

C8_BackoffSchedule ==
    \A i \in DOMAIN inv :
        LET f == inv[i]
            self == client[f.client]
        IN  (self.retries_enabled /\ ~self.retry_jitter) =>
               \A n \in 1 .. Len(f.sleeps) :
                   /\ f.sleeps[n] = ExpectedBackoff(self, n) * 10
                   /\ (/\ self.initial_backoff_ms = 1000
                       /\ self.max_backoff_ms = 2500
                       /\ self.backoff_multiplier = 200) =>
                          f.sleeps[n] = (CASE n = 1 -> 1000000
                                           [] n = 2 -> 2000000
                                           [] OTHER -> 2500000)

C8_Witness ==
    \E i \in DOMAIN inv :
        LET f == inv[i]
            self == client[f.client]
        IN  /\ self.retries_enabled /\ ~self.retry_jitter
            /\ Done(f)
            /\ f.sleeps = <<1000000, 2000000, 2500000>>
            /\ f.calls = 4
            /\ f.result.kind = "return"

(***************************************************************************)
(* C9.  With jitter enabled each sleep is the pre-jitter backoff in force  *)
(* multiplied by (1 + j) for a j drawn for that sleep in [-0.1, 0.1], and  *)
(* jitter never leaks into the stored backoff: two runs of one executor    *)
(* with the same policy and the same call outcomes have the same sequence  *)
(* of pre-jitter backoffs and the same number of calls, whatever their     *)
(* jitter draws.                                                           *)
(***************************************************************************)
C9_JitterDoesNotLeak ==
    /\ \A i \in DOMAIN inv :
          LET f == inv[i]
              self == client[f.client]
          IN  self.retry_jitter =>
                 /\ Len(f.draws) = Len(f.sleeps)
                 /\ \A n \in 1 .. Len(f.sleeps) :
                       /\ f.draws[n] \in -100 .. 100
                       /\ f.sleeps[n] =
                              ((f.backoffs[n] * (1000 + f.draws[n])) \div 1000) * 10
    /\ \A i \in DOMAIN inv, j \in DOMAIN inv :
          (/\ inv[i].client = inv[j].client
           /\ Done(inv[i]) /\ Done(inv[j])) =>
              /\ inv[i].backoffs = inv[j].backoffs
              /\ inv[i].calls = inv[j].calls
              /\ inv[i].current_backoff_ms = inv[j].current_backoff_ms

C9_Witness ==
    /\ DOMAIN inv = Invocations
    /\ inv["a"].client = inv["b"].client
    /\ client[inv["a"].client].retry_jitter
    /\ Done(inv["a"]) /\ Done(inv["b"])
    /\ Len(inv["a"].draws) >= 2
    /\ \A n \in 1 .. Len(inv["a"].draws) : inv["a"].draws[n] # inv["b"].draws[n]
    /\ inv["a"].sleeps # inv["b"].sleeps
    /\ inv["a"].backoffs = inv["b"].backoffs

(***************************************************************************)
(* C10.  The blocking and the suspending executor are observationally      *)
(* equivalent.  As claimed: for the same policy, the same jitter draws and *)
(* the same call outcomes they make the same number of calls and sleeps,   *)
(* with the same sleep durations in the same order, and end with the same  *)
(* result kind and message.                                                *)
(***************************************************************************)
SameDraws(f, g) ==
    \A n \in 1 .. Min(Len(f.draws), Len(g.draws)) : f.draws[n] = g.draws[n]

SameObservation(f, g) ==
    /\ f.calls = g.calls
    /\ f.sleeps = g.sleeps
    /\ f.result = g.result

C10_ExecutorsEquivalent ==
    \A i \in DOMAIN inv, j \in DOMAIN inv :
        (/\ inv[i].client = "VortexClient" /\ inv[j].client = "AsyncVortexClient"
         /\ Done(inv[i]) /\ Done(inv[j])
         /\ SameDraws(inv[i], inv[j])) =>
            SameObservation(inv[i], inv[j])

(***************************************************************************)
(* C10, amended.  The two executors are equivalent in that sense when      *)
(* max_retries >= 0 and every grpc.RpcError the call raises is a           *)
(* grpc.aio.AioRpcError, the class both executors catch.                   *)
(***************************************************************************)
NoPlainRpcError(f) ==
    \A n \in 1 .. Len(f.outcomes) : f.outcomes[n].cls # "RpcError"

C10_ExecutorsEquivalentOnAioErrors ==
    \A i \in DOMAIN inv, j \in DOMAIN inv :
        (/\ inv[i].client = "VortexClient" /\ inv[j].client = "AsyncVortexClient"
         /\ client[inv[i].client].max_retries >= 0
         /\ Done(inv[i]) /\ Done(inv[j])
         /\ NoPlainRpcError(inv[i]) /\ NoPlainRpcError(inv[j])
         /\ SameDraws(inv[i], inv[j])) =>
            /\ SameObservation(inv[i], inv[j])
            /\ inv[i].outcomes = inv[j].outcomes

C10_Witness ==
    /\ DOMAIN inv = Invocations
    /\ inv["a"].client = "VortexClient" /\ inv["b"].client = "AsyncVortexClient"
    /\ client["VortexClient"].retry_jitter
    /\ Done(inv["a"]) /\ Done(inv["b"])
    /\ NoPlainRpcError(inv["a"]) /\ NoPlainRpcError(inv["b"])
    /\ Len(inv["a"].draws) = 2
    /\ inv["a"].draws = inv["b"].draws
    /\ inv["a"].result.kind = "VortexApiError"
    /\ SameObservation(inv["a"], inv["b"])

(***************************************************************************)
(* C11.  Within one invocation the attempts are strictly sequential, in    *)
(* blocking and in suspending mode.  At most one attempt is in flight: the *)
(* call has been invoked once more than it has ended exactly while the     *)
(* invocation is inside the call, and never more than that.  An attempt    *)
(* starts only in a step that enters the executor (the first attempt) or   *)
(* that ends a sleep: the attempt before it failed with a retryable code   *)
(* and the one sleep that followed that failure is the one that ended.     *)
(***************************************************************************)
InFlight(f) == f.calls - Len(f.outcomes)

C11_AttemptsSequential ==
    /\ [](\A i \in DOMAIN inv :
            /\ InFlight(inv[i]) \in {0, 1}
            /\ InFlight(inv[i]) = 1 <=> inv[i].pc = "in_call")
    /\ [][\A i \in DOMAIN inv :
            inv'[i].calls # inv[i].calls =>
                /\ inv'[i].calls = inv[i].calls + 1
                /\ InFlight(inv[i]) = 0
                /\ \/ inv[i].pc = "idle" /\ inv[i].calls = 0
                   \/ /\ inv[i].pc = "sleeping"
                      /\ RetryableBy(inv[i].client, Last(inv[i].outcomes))
                      /\ Len(inv[i].sleeps) = inv[i].calls]_vars

\* Both executors have a third attempt in flight, after two failures and two
\* sleeps.
C11_Witness ==
    /\ inv["a"].client = "VortexClient" /\ inv["b"].client = "AsyncVortexClient"
    /\ \A i \in DOMAIN inv :
          inv[i].pc = "in_call" /\ inv[i].calls = 3 /\ Len(inv[i].sleeps) = 2

(***************************************************************************)
(* C12.  An in-flight invocation uses a snapshot of the policy taken at    *)
(* its start.  When retry fields of its client are assigned while it is    *)
(* suspended in a call or a sleep, what it does is what the policy it      *)
(* started with dictates: it makes at most max_retries + 1 attempts, each  *)
(* attempt but the last failed with a code retryable under that policy,    *)
(* its sleeps follow the backoff schedule of that policy, and a classified *)
(* failure that ends it is raised as "Failed to {op}" after exactly        *)
(* max_retries + 1 attempts when its code is retryable under that policy.  *)
(***************************************************************************)
\* The policy invocation f started with: fields are assigned only while an
\* invocation is suspended, so it is the policy its client was constructed
\* with.
PolicyAtStart(f) == Construct(ctor[f.client])

C12_PolicySnapshot ==
    \A i \in DOMAIN inv :
        LET f == inv[i]
            P == PolicyAtStart(f)
            RetryableAtStart(e) == ClassifiedBy(f.client, e) /\ e.code \in P.retryable_status_codes
        IN  (P.retries_enabled /\ P.max_retries >= 0) =>
               /\ f.calls <= P.max_retries + 1
               /\ \A k \in 1 .. Len(f.outcomes) : k < f.calls => RetryableAtStart(f.outcomes[k])
               /\ \A n \in 1 .. Len(f.sleeps) :
                     /\ f.backoffs[n] = ExpectedBackoff(P, n)
                     /\ ~P.retry_jitter => f.sleeps[n] = f.backoffs[n] * 10
               /\ (Done(f) /\ ClassifiedBy(f.client, Last(f.outcomes))) =>
                     /\ f.result = FailedTo(f, Last(f.outcomes))
                     /\ RetryableAtStart(Last(f.outcomes)) => f.calls = P.max_retries + 1

(***************************************************************************)
(* C13.  Concurrent invocations on one client never interfere with each    *)
(* other's attempt state.  Under every interleaving the attempt index, the *)
(* current backoff and the last captured failure of an invocation are what *)
(* the policy and the outcomes of its own call alone determine: the        *)
(* attempt index is the number of its own attempts that failed before the  *)
(* current one, the backoff is the initial backoff grown once per sleep it *)
(* has completed, the last captured failure is the last classified failure *)
(* of its own call.                                                        *)
(***************************************************************************)
\* The sleeps invocation f has completed.
SleptOut(f) == IF f.pc = "sleeping" THEN Len(f.sleeps) - 1 ELSE Len(f.sleeps)

\* The last classified failure among the outcomes of f's own call.
LastClassified(f) ==
    LET ks == {k \in 1 .. Len(f.outcomes) : ClassifiedBy(f.client, f.outcomes[k])}
    IN  IF ks = {} THEN NoException
        ELSE f.outcomes[CHOOSE k \in ks : \A j \in ks : j <= k]

C13_NoInterference ==
    \A i \in DOMAIN inv :
        LET f == inv[i]
            self == client[f.client]
        IN  (f.retrying /\ f.calls > 0) =>
               /\ f.attempt = f.calls - 1
               /\ f.attempt = SleptOut(f)
               /\ f.current_backoff_ms = ExpectedBackoff(self, SleptOut(f) + 1)
               /\ f.last_exception = LastClassified(f)

\* The two invocations share a client and are both under way, at different
\* attempts, with different backoffs and different captured failures.
C13_Witness ==
    /\ inv["a"].client = inv["b"].client
    /\ inv["a"].pc = "in_call" /\ inv["b"].pc = "sleeping"
    /\ inv["a"].attempt = 2 /\ inv["b"].attempt = 0
    /\ inv["a"].current_backoff_ms = ToMs(2500) /\ inv["b"].current_backoff_ms = ToMs(1000)
    /\ inv["a"].last_exception = AioExhausted /\ inv["b"].last_exception = AioUnavailable

(***************************************************************************)
(* C14.  Every invocation starts from fresh attempt state, whatever        *)
(* earlier invocations on the same client did: while its first attempt is  *)
(* in flight its attempt index is 0, its current backoff is                *)
(* initial_backoff_ms and it has captured no failure.  An invocation       *)
(* leaves every retry-policy field of its client unchanged: the fields     *)
(* hold what the constructor stored, throughout.                           *)
(***************************************************************************)
FirstAttemptInFlight(f) == f.retrying /\ f.pc = "in_call" /\ f.outcomes = <<>>

C14_FreshStateAndPolicyUntouched ==
    /\ \A i \in DOMAIN inv :
          FirstAttemptInFlight(inv[i]) =>
              /\ inv[i].attempt = 0
              /\ inv[i].current_backoff_ms = ToMs(client[inv[i].client].initial_backoff_ms)
              /\ inv[i].last_exception = NoException
    /\ \A c \in Clients : client[c] = Construct(ctor[c])

\* Invocation "b" starts on the client on which "a" has ended in each way:
\* after retries used up with the backoff at the cap, after a success that
\* followed a retry, after an error that was not retried.
C14_WitnessAfter(how) ==
    /\ inv["a"].client = inv["b"].client
    /\ FirstAttemptInFlight(inv["b"])
    /\ Done(inv["a"])
    /\ CASE how = "exhaustion" ->
               /\ inv["a"].current_backoff_ms = ToMs(client[inv["a"].client].max_backoff_ms)
               /\ inv["a"].calls = client[inv["a"].client].max_retries + 1
               /\ inv["a"].result.kind = "VortexApiError"
          [] how = "success" ->
               inv["a"].result.kind = "return" /\ Len(inv["a"].sleeps) = 1
          [] OTHER ->
               inv["a"].result.kind = "VortexException" /\ inv["a"].calls = 1

C14_Witness == C14_WitnessAfter("exhaustion")

C14_WitnessSuccess == C14_WitnessAfter("success")

C14_WitnessError == C14_WitnessAfter("error")

(***************************************************************************)
(* C15.  When a cancellation signal from outside aborts the in-flight call *)
(* or the sleep between attempts, the executor propagates the cancellation *)
(* to its caller: the invocation ends in that step raising the signal      *)
(* itself, neither UnexpectedError nor ApiError, having invoked the call   *)
(* and slept no more than it had; and an invocation that has ended takes   *)
(* no further step, so no attempt and no sleep follows.                    *)
(***************************************************************************)
C15_CancellationPropagates ==
    [][\A i \in DOMAIN inv :
          /\ (CallCancelled(i) \/ SleepCancelled(i)) =>
                 /\ Done(inv'[i])
                 /\ inv'[i].result = Propagates(Cancellation(inv[i].client))
                 /\ inv'[i].result.kind \notin {"VortexException", "VortexApiError", "return"}
                 /\ inv'[i].calls = inv[i].calls
                 /\ inv'[i].sleeps = inv[i].sleeps
          /\ Done(inv[i]) => inv'[i] = inv[i]]_vars

\* The suspending executor was cancelled in its second call, after a
\* retryable failure and a sleep, with attempts left, and raised
\* CancelledError.
C15_Witness ==
    \E i \in DOMAIN inv :
        LET f == inv[i]
        IN  /\ f.client = "AsyncVortexClient"
            /\ Done(f)
            /\ f.result.kind = "CancelledError"
            /\ f.calls = 2 /\ Len(f.sleeps) = 1
            /\ Last(f.outcomes) = CancelledError
            /\ f.calls < client[f.client].max_retries + 1

\* The blocking executor was interrupted in its sleep and raised
\* KeyboardInterrupt.
C15_WitnessSleep ==
    \E i \in DOMAIN inv :
        LET f == inv[i]
        IN  /\ f.client = "VortexClient"
            /\ Done(f)
            /\ f.result.kind = "KeyboardInterrupt"
            /\ f.calls = 1 /\ Len(f.sleeps) = 1 /\ Len(f.outcomes) = 1

(***************************************************************************)
(* C16.  Every invocation that does not return a success value and is not  *)
(* cancelled ends by raising ApiError or UnexpectedError: a value is       *)
(* returned only when the last attempt of the call returned it, so no      *)
(* failure of the call is dropped, and no other error type leaves the      *)
(* executor, whatever the call did, a classified failure without a code    *)
(* accessor included.                                                      *)
(***************************************************************************)
\* Invocation f was ended by a cancellation: of its last call, or of the
\* sleep it was in (it ended with as many sleeps as failed attempts).
Cancelled(f) ==
    /\ Done(f)
    /\ f.outcomes # <<>>
    /\ \/ Last(f.outcomes) \in {KeyboardInterrupt, CancelledError}
       \/ Len(f.sleeps) = Len(f.outcomes)

C16_OnlyApiErrorOrUnexpectedError ==
    \A i \in DOMAIN inv :
        LET f == inv[i]
        IN  Done(f) =>
               /\ f.result.kind = "return" =>
                      /\ f.outcomes # <<>>
                      /\ Last(f.outcomes).cls = "return"
                      /\ f.result.message = Last(f.outcomes).text
               /\ (f.result.kind # "return" /\ ~Cancelled(f)) =>
                      f.result.kind \in {"VortexApiError", "VortexException"}
               /\ (f.outcomes # <<>> /\ Last(f.outcomes) = RpcBare) =>
                      f.result.kind = (IF ClassifiedBy(f.client, RpcBare)
                                       THEN "VortexApiError" ELSE "VortexException")

\* The blocking executor ended on a grpc.RpcError without a code accessor,
\* after a retry, raising ApiError.
C16_Witness ==
    \E i \in DOMAIN inv :
        LET f == inv[i]
        IN  /\ f.client = "VortexClient"
            /\ Done(f) /\ ~Cancelled(f)
            /\ f.calls = 2
            /\ Last(f.outcomes) = RpcBare
            /\ f.result.kind = "VortexApiError"
            /\ f.result.status_code = None

\* An invocation that made no attempt at all (max_retries = -1) raised
\* UnexpectedError.
C16_WitnessNoAttempt ==
    \E i \in DOMAIN inv :
        /\ Done(inv[i]) /\ inv[i].calls = 0
        /\ inv[i].result.kind = "VortexException"

(***************************************************************************)
(* C17.  Provided every call attempt and every sleep terminates, every     *)
(* invocation that has been entered eventually terminates, returning a     *)
(* value or raising, for every policy and every sequence of call outcomes: *)
(* the retry loop cannot run forever.                                      *)
(***************************************************************************)
C17_Terminates ==
    \A i \in {"a"} : (inv[i].pc # "idle") ~> Done(inv[i])

\* An invocation has ended after using its whole retry budget, the largest
\* the policies allow.
C17_Witness ==
    \E i \in DOMAIN inv :
        /\ Done(inv[i])
        /\ inv[i].calls = MaxRetriesBound + 1
        /\ Len(inv[i].sleeps) = MaxRetriesBound
        /\ inv[i].result.kind # None

(***************************************************************************)
(* C18.  When a client is constructed with a custom non-empty              *)
(* retryable-code list, retry decisions test membership in that list only. *)
(* A classified failure with a listed code (INTERNAL) met with retries     *)
(* left is followed by a sleep and another attempt; a classified failure   *)
(* with a code that is not listed, a default code (UNAVAILABLE) included,  *)
(* ends the invocation with ApiError without a sleep, after exactly one    *)
(* call when it is the first outcome.  The failures meant have a code that *)
(* can be read.                                                            *)
(***************************************************************************)
\* The list the constructor of client c was given, <<>> when it was given
\* none.
GivenCodes(c) == ctor[c].retryable_status_codes

C18_CustomListDecides ==
    \A i \in DOMAIN inv :
        LET f == inv[i]
            self == client[f.client]
            given == GivenCodes(f.client)
        IN  (f.retrying /\ given # <<>> /\ given[1] # {}) =>
               \A k \in 1 .. Len(f.outcomes) :
                   LET e == f.outcomes[k]
                   IN  (ClassifiedBy(f.client, e) /\ CodeReadable(e)) =>
                          IF e.code \in given[1] /\ k <= self.max_retries
                          THEN /\ Len(f.sleeps) >= k
                               /\ f.pc # "sleeping" => f.calls >= k + 1
                          ELSE IF e.code \notin given[1]
                          THEN /\ Done(f) /\ k = Len(f.outcomes) /\ f.calls = k
                               /\ Len(f.sleeps) = k - 1
                               /\ f.result = FailedTo(f, e)
                          ELSE TRUE

\* Constructed with [INTERNAL, RESOURCE_EXHAUSTED]: an INTERNAL failure was
\* retried, and the UNAVAILABLE failure of the second attempt was not.
C18_Witness ==
    \E i \in DOMAIN inv :
        LET f == inv[i]
        IN  /\ GivenCodes(f.client) = <<{"INTERNAL", "RESOURCE_EXHAUSTED"}>>
            /\ client[f.client].max_retries >= 2
            /\ f.outcomes = <<AioInternal, AioUnavailable>>
            /\ Done(f) /\ f.calls = 2 /\ Len(f.sleeps) = 1
            /\ f.result.kind = "VortexApiError" /\ f.result.status_code = "UNAVAILABLE"

\* Constructed with [INTERNAL, RESOURCE_EXHAUSTED]: UNAVAILABLE at the first
\* attempt raised ApiError after exactly one call.
C18_WitnessOneCall ==
    \E i \in DOMAIN inv :
        LET f == inv[i]
        IN  /\ GivenCodes(f.client) = <<{"INTERNAL", "RESOURCE_EXHAUSTED"}>>
            /\ client[f.client].max_retries >= 1
            /\ f.outcomes = <<AioUnavailable>>
            /\ Done(f) /\ f.calls = 1 /\ f.sleeps = <<>>
            /\ f.result.kind = "VortexApiError"

(***************************************************************************)
(* C19.  The retryable set is {UNAVAILABLE, RESOURCE_EXHAUSTED} only when  *)
(* the caller supplies none; any set supplied at construction overrides    *)
(* the default: a classified failure whose code is not in the supplied set *)
(* is never followed by a sleep or another attempt, so a client            *)
(* constructed with an explicit empty list retries no failure code at all. *)
(***************************************************************************)
C19_SuppliedSetOverrides ==
    /\ \A c \in Clients :
          GivenCodes(c) = <<>> => client[c].retryable_status_codes = DefaultRetryableCodes
    /\ \A i \in DOMAIN inv :
          LET f == inv[i]
              given == GivenCodes(f.client)
          IN  (f.retrying /\ given # <<>>) =>
                 /\ \A k \in 1 .. Len(f.outcomes) :
                       (ClassifiedBy(f.client, f.outcomes[k]) /\ f.outcomes[k].code \notin given[1])
                           => (Done(f) /\ k = Len(f.outcomes) /\ Len(f.sleeps) = k - 1)
                 /\ given[1] = {} => (f.sleeps = <<>> /\ f.calls <= 1)

(***************************************************************************)
(* C20.  When initial_backoff_ms > max_backoff_ms the first sleep of an    *)
(* invocation uses initial_backoff_ms as it is, not lowered to the cap     *)
(* (jittered if jitter is on); the cap only limits the value stored for    *)
(* the later sleeps, each of which is computed from                        *)
(* min(max_backoff_ms, previous backoff * multiplier).                     *)
(* Sleeps are in microseconds, backoffs in hundredths of a millisecond,    *)
(* the multiplier in hundredths, the jitter draw in thousandths.           *)
(***************************************************************************)
\* The sleep, in microseconds, computed from backoff b and jitter draw u.
SleepFrom(b, jitter, u) == IF jitter THEN ((b * (1000 + u)) \div 1000) * 10 ELSE b * 10

C20_FirstSleepUncapped ==
    \A i \in DOMAIN inv :
        LET f == inv[i]
            self == client[f.client]
            cap == self.max_backoff_ms * 100
            draw(n) == IF self.retry_jitter THEN f.draws[n] ELSE 0
        IN  (f.retrying /\ self.initial_backoff_ms > self.max_backoff_ms) =>
               \A n \in 1 .. Len(f.sleeps) :
                   /\ f.sleeps[n] = SleepFrom(f.backoffs[n], self.retry_jitter, draw(n))
                   /\ n = 1 =>
                         /\ f.backoffs[1] = self.initial_backoff_ms * 100
                         /\ f.backoffs[1] > cap
                         /\ ~self.retry_jitter => f.sleeps[1] = self.initial_backoff_ms * 1000
                   /\ n > 1 =>
                         LET grown == (f.backoffs[n - 1] * self.backoff_multiplier) \div 100
                         IN  /\ f.backoffs[n] = IF cap < grown THEN cap ELSE grown
                             /\ f.backoffs[n] <= cap

\* initial_backoff_ms 3000 above the cap 2500, no jitter: the sleeps were
\* 3.0 s, then 2.5 s and 2.5 s.
C20_Witness ==
    \E i \in DOMAIN inv :
        LET f == inv[i]
            self == client[f.client]
        IN  /\ self.initial_backoff_ms = 3000 /\ self.max_backoff_ms = 2500
            /\ ~self.retry_jitter
            /\ f.sleeps = <<3000000, 2500000, 2500000>>

(***************************************************************************)
(* C21.  The max_backoff_ms cap applies to the stored pre-jitter backoff   *)
(* only, not to the sleep: every backoff stored after a growth step is at  *)
(* most the cap, while with jitter on a sleep computed from a backoff at   *)
(* the cap with a positive draw is longer than max_backoff_ms; and no      *)
(* sleep exceeds 1.1 times the pre-jitter backoff in force for it.         *)
(* Sleeps are in microseconds, backoffs in hundredths of a millisecond.    *)
(***************************************************************************)
C21_CapOnBackoffNotOnSleep ==
    \A i \in DOMAIN inv :
        LET f == inv[i]
            self == client[f.client]
            cap == self.max_backoff_ms * 100
        IN  f.retrying =>
               \A n \in 1 .. Len(f.sleeps) :
                   /\ n > 1 => f.backoffs[n] <= cap
                   /\ f.sleeps[n] <= 11 * f.backoffs[n]
                   /\ (self.retry_jitter /\ f.draws[n] > 0 /\ f.backoffs[n] = cap) =>
                          f.sleeps[n] > self.max_backoff_ms * 1000

\* Jitter on, backoff at the cap of 2500 ms, draw +0.1: the sleep was
\* 2.75 s.
C21_Witness ==
    \E i \in DOMAIN inv :
        LET f == inv[i]
            self == client[f.client]
        IN  /\ self.retry_jitter /\ self.max_backoff_ms = 2500
            /\ Len(f.sleeps) = 3
            /\ f.backoffs[3] = 250000 /\ f.draws[3] = 100
            /\ f.sleeps[3] = 2750000

(***************************************************************************)
(* C22.  With max_retries >= 0 and a policy that is not assigned to during *)
(* the invocation, the fallback after the retry loop (UnexpectedError      *)
(* "... but no gRPC exception was captured") is unreachable: whatever the  *)
(* call does, the invocation ends inside the loop, returning the value of  *)
(* its last attempt or raising the error its handlers build from the       *)
(* failure of its last attempt, so the loop is never left by running out.  *)
(***************************************************************************)
\* The error of the fallback after the loop of invocation f.
Fallback(f) ==
    VortexException("Failed to " \o f.operation_name
                        \o " after all retries, but no gRPC exception was captured"
                        \o (IF f.client = "AsyncVortexClient" THEN " (async)" ELSE "") \o ".")

\* What the try statement of the loop ends an invocation with when its last
\* attempt did o.
EndsInsideLoop(f, o) ==
    {Result("return", o.text, None, None),
     VortexApiError("Failed to " \o f.operation_name, o),
     Result("VortexApiError", o.text, o.code, o.details),
     VortexException("An unexpected error occurred during " \o f.operation_name
                         \o ": " \o o.text)}
    \cup (IF CodeReadable(o) THEN {} ELSE {Propagates(CodeFailed)})

C22_FallbackUnreachable ==
    \A i \in DOMAIN inv :
        LET f == inv[i]
        IN  (Done(f) /\ f.retrying /\ client[f.client].max_retries >= 0) =>
               /\ f.result # Fallback(f)
               /\ f.calls >= 1
               /\ f.outcomes # <<>>
               /\ f.result \in EndsInsideLoop(f, Last(f.outcomes))

\* With max_retries = 0 an invocation ended on its one attempt, which failed
\* with a retryable code.
C22_Witness ==
    \E i \in DOMAIN inv :
        LET f == inv[i]
        IN  /\ Done(f) /\ f.retrying
            /\ client[f.client].max_retries = 0
            /\ f.calls = 1
            /\ RetryableBy(f.client, Last(f.outcomes))
            /\ f.result.kind = "VortexApiError"

(***************************************************************************)
(* The connection and the public operations of a client.                   *)
(***************************************************************************)
\* The collection and point operations; each uses the stub of its service.
CollectionMethods ==
    {"create_collection", "get_collection_info", "list_collections", "delete_collection"}

PointMethods == {"upsert_points", "get_points", "delete_points", "search_points"}

Methods == CollectionMethods \cup PointMethods

StubOf(m) == IF m \in CollectionMethods THEN "_collections_stub" ELSE "_points_stub"

\* The operation_name a method gives the executor, for the collection 'col'.
OperationName(m) ==
    CASE m = "create_collection" -> "create collection 'col'"
      [] m = "get_collection_info" -> "get collection info for 'col'"
      [] m = "list_collections" -> "list collections"
      [] m = "delete_collection" -> "delete collection 'col'"
      [] m = "upsert_points" -> "upsert points in 'col'"
      [] m = "get_points" -> "get points from 'col'"
      [] m = "delete_points" -> "delete points from 'col'"
      [] m = "search_points" -> "search points in 'col'"

\* What a method says it was doing when a step of its own raised.
Doing(m) ==
    CASE m = "create_collection" -> "creating collection 'col'"
      [] m = "get_collection_info" -> "getting collection info for 'col'"
      [] m = "list_collections" -> "listing collections"
      [] m = "delete_collection" -> "deleting collection 'col'"
      [] m = "upsert_points" -> "upserting points in 'col'"
      [] m = "get_points" -> "getting points from 'col'"
      [] m = "delete_points" -> "deleting points from 'col'"
      [] m = "search_points" -> "searching points in 'col'"

\* The methods that read response.overall_error, and the word they name
\* themselves with in the error they raise for it.
OverallErrorVerb(m) ==
    IF m = "upsert_points" THEN "upsert" ELSE IF m = "delete_points" THEN "delete" ELSE None

\* A response whose overall_error is not empty; the overall_error of a
\* returned response is the details field of the outcome.
ReturnedOverallError == Outcome("return", None, "WAL is full", "response")

OpOutcomes == Outcomes \cup {ReturnedOverallError}

\* VortexConnectionError(message)
VortexConnectionError(message) == Result("VortexConnectionError", message, None, None)

\* VortexApiError(message, status_code=common_pb2.StatusCode.ERROR)
OverallError(m, response) ==
    Result("VortexApiError",
           "Overall error during " \o OverallErrorVerb(m) \o ": " \o response.details,
           StatusCodeERROR, None)

\* A thread or task of the program that uses client c.  what is a method,
\* "close", "connect" (the suspending client only) or "with", the with
\* statement on the client.  gate is the position another task must be at
\* for this one to start: "done" for a statement that follows it,
\* "inside" for the body of its with statement.  i is the invocation of the
\* executor a method makes.  requests counts the requests built, connects
\* and closes the calls of connect() and close() made; closing is the channel
\* whose close() connect() or close() is awaiting.
Task(c, what, gate, i) ==
    [client |-> c, what |-> what, gate |-> gate, inv |-> i,
     pc |-> "start", closing |-> NoChannel,
     requests |-> 0, connects |-> 0, closes |-> 0,
     result |-> NoResult]

Gate(t, pc) == [task |-> t, pc |-> pc]

NoGate == Gate(None, None)

Started(t) ==
    IF task[t].gate = NoGate THEN TRUE
    ELSE task[task[t].gate.task].pc = task[t].gate.pc

TaskEnds(k, r) == [k EXCEPT !.pc = "done", !.result = r]

\* Where a task that called connect() is when connect() has returned, the
\* fields of the client being cn: inside the block for __aenter__, at the
\* second test of its stub for a method.
ConnectReturns(k, cn) ==
    IF k.what = "with" THEN [k EXCEPT !.pc = "inside"]
    ELSE IF k.what = "connect" THEN TaskEnds(k, Result("return", None, None, None))
    ELSE IF cn[StubOf(k.what)] = NoChannel
         THEN TaskEnds(k, VortexConnectionError("Client not connected after connect attempt."))
         ELSE [k EXCEPT !.pc = "ready"]

\* How a call of connect() goes on after the close() of the old channel:
\* at is the statement that raises ("none": connect() returns), cls the class
\* of what it raises.
Connects == [at |-> "none", cls |-> None]

ConnectOutcomes ==
    {Connects} \cup [at : {"channel", "collections_stub", "points_stub"},
                     cls : {"AioRpcError", "RuntimeError"}]

\* The VortexConnectionError connect() raises for an exception of class cls
\* raised inside its try block.
ConnectFailed(cls) ==
    VortexConnectionError(
        IF IsInstance([cls |-> cls], "AioRpcError")
        THEN "Failed to connect to Vortex at host:50051: <AioRpcError UNAVAILABLE>"
        ELSE "An unexpected error occurred while connecting to host:50051: failed")

\* The rest of connect() from the creation of the channel on, chans being
\* the channels as they are then.  The channel and the two stubs are
\* assigned one after the other: a statement that raises leaves the fields
\* assigned before it with their new values, the others as they were, and
\* connect() raises VortexConnectionError.
CreateChannel(t, k, how, chans) ==
    LET c == k.client
        ch == Len(chans) + 1
    IN  CASE how.at = "none" ->
                /\ conn' = [conn EXCEPT ![c] = ConnectedOn(ch)]
                /\ channels' = Append(chans, "open")
                /\ task' = [task EXCEPT ![t] = ConnectReturns(k, ConnectedOn(ch))]
          [] how.at = "channel" ->
                /\ conn' = conn
                /\ channels' = chans
                /\ task' = [task EXCEPT ![t] = TaskEnds(k, ConnectFailed(how.cls))]
          [] how.at = "collections_stub" ->
                /\ conn' = [conn EXCEPT ![c]._channel = ch]
                /\ channels' = Append(chans, "open")
                /\ task' = [task EXCEPT ![t] = TaskEnds(k, ConnectFailed(how.cls))]
          [] how.at = "points_stub" ->
                /\ conn' = [conn EXCEPT ![c]._channel = ch, ![c]._collections_stub = ch]
                /\ channels' = Append(chans, "open")
                /\ task' = [task EXCEPT ![t] = TaskEnds(k, ConnectFailed(how.cls))]

\* AsyncVortexClient.connect() is called: by a task that calls it, by
\* __aenter__, or by a method that finds its stub None.  With a channel in
\* place the task is suspended in the close() of that channel; without one
\* it goes on to create the channel.
ConnectCalled(t, how) ==
    LET k == task[t]
        c == k.client
        called == [k EXCEPT !.connects = @ + 1]
    IN  /\ k.pc = "start" /\ Started(t)
        /\ c = "AsyncVortexClient"
        /\ \/ k.what \in {"with", "connect"}
           \/ k.what \in Methods /\ conn[c][StubOf(k.what)] = NoChannel
        /\ IF conn[c]._channel # NoChannel
           THEN /\ how = Connects
                /\ task' = [task EXCEPT ![t] = [called EXCEPT !.pc = "closing",
                                                              !.closing = conn[c]._channel]]
                /\ UNCHANGED <<conn, channels>>
           ELSE CreateChannel(t, called, how, channels)
        /\ UNCHANGED <<ctor, client, inv, script>>

\* The close() of the old channel that connect() awaits has completed.
ConnectResumes(t, how) ==
    LET k == task[t]
    IN  /\ k.pc = "closing"
        /\ CreateChannel(t, [k EXCEPT !.closing = NoChannel], how,
                         [channels EXCEPT ![k.closing] = "closed"])
        /\ UNCHANGED <<ctor, client, inv, script>>

\* VortexClient.close(): with a channel in place, closes it and sets the
\* three fields to None; without one, does nothing.  AsyncVortexClient.close()
\* without a channel does nothing either.
Closed(c) ==
    IF conn[c]._channel # NoChannel
    THEN /\ channels' = [channels EXCEPT ![conn[c]._channel] = "closed"]
         /\ conn' = [conn EXCEPT ![c] = Disconnected]
    ELSE UNCHANGED <<conn, channels>>

\* Task t, whose record is k, calls close(); r is what the task ends with
\* when close() has returned.  AsyncVortexClient.close() with a channel in
\* place is suspended in the close() of that channel, the fields as they
\* are (see CloseResumes).
CloseCalled(t, k, r) ==
    LET c == k.client
        called == [k EXCEPT !.closes = @ + 1]
    IN  IF c = "AsyncVortexClient" /\ conn[c]._channel # NoChannel
        THEN /\ task' = [task EXCEPT ![t] = [called EXCEPT !.pc = "in_close",
                                                           !.closing = conn[c]._channel]]
             /\ UNCHANGED <<conn, channels>>
        ELSE /\ Closed(c)
             /\ task' = [task EXCEPT ![t] = TaskEnds(called, r)]

\* A task calls close().
Close(t) ==
    LET k == task[t]
    IN  /\ k.pc = "start" /\ Started(t)
        /\ k.what = "close"
        /\ CloseCalled(t, k, Result("return", None, None, None))
        /\ UNCHANGED <<ctor, client, inv, script>>

\* VortexClient.__enter__: returns self.
Enter(t) ==
    LET k == task[t]
    IN  /\ k.pc = "start" /\ Started(t)
        /\ k.what = "with"
        /\ k.client = "VortexClient"
        /\ task' = [task EXCEPT ![t] = [k EXCEPT !.pc = "inside"]]
        /\ UNCHANGED <<ctor, client, inv, script, conn, channels>>

\* The tasks that make the body of the with statement of task t.
Body(t) == {b \in DOMAIN task : task[b].gate = Gate(t, "inside")}

\* What the body of the with statement of task t raised, if anything.
Raised(t) == {task[b].result : b \in {x \in Body(t) : task[x].result.kind # "return"}}

\* What the statement of task t ends with once its close() has returned: an
\* exception of the body of a with statement goes on, close() returns None.
AfterClose(t) ==
    IF Raised(t) = {} THEN Result("return", None, None, None)
    ELSE CHOOSE r \in Raised(t) : TRUE

\* The close() of the channel that AsyncVortexClient.close() awaits has
\* completed: the three fields are set to None, whatever they hold by now.
CloseResumes(t) ==
    LET k == task[t]
    IN  /\ k.pc = "in_close"
        /\ channels' = [channels EXCEPT ![k.closing] = "closed"]
        /\ conn' = [conn EXCEPT ![k.client] = Disconnected]
        /\ task' = [task EXCEPT ![t] = TaskEnds([k EXCEPT !.closing = NoChannel], AfterClose(t))]
        /\ UNCHANGED <<ctor, client, inv, script>>

\* Variant of Exit: close() is called only when the body returned.
ExitUnlessRaised(t) ==
    LET k == task[t]
    IN  /\ k.pc = "inside"
        /\ \A b \in Body(t) : task[b].pc = "done"
        /\ IF Raised(t) = {}
           THEN CloseCalled(t, k, AfterClose(t))
           ELSE /\ task' = [task EXCEPT ![t] = TaskEnds(k, AfterClose(t))]
                /\ UNCHANGED <<conn, channels>>
        /\ UNCHANGED <<ctor, client, inv, script>>

\* __exit__ / __aexit__: the body has ended, by returning or by raising;
\* close() is called and an exception of the body goes on.
Exit(t) ==
    LET k == task[t]
    IN  /\ k.pc = "inside"
        /\ \A b \in Body(t) : task[b].pc = "done"
        /\ CloseCalled(t, k, AfterClose(t))
        /\ UNCHANGED <<ctor, client, inv, script>>

\* Variant of OperationStarts: the suspending client, too, raises when the
\* stub is None.
OperationStartsNoReconnect(t) ==
    LET k == task[t]
        c == k.client
    IN  /\ k.pc = "start" /\ Started(t)
        /\ k.what \in Methods
        /\ task' = [task EXCEPT ![t] =
                IF conn[c][StubOf(k.what)] # NoChannel THEN [k EXCEPT !.pc = "ready"]
                ELSE TaskEnds(k, VortexConnectionError("Client not connected."))]
        /\ UNCHANGED <<ctor, client, inv, script, conn, channels>>

\* Variant of OperationStarts: the stub is not tested.
OperationStartsUntested(t) ==
    LET k == task[t]
    IN  /\ k.pc = "start" /\ Started(t)
        /\ k.what \in Methods
        /\ k.client = "VortexClient" \/ conn[k.client][StubOf(k.what)] # NoChannel
        /\ task' = [task EXCEPT ![t] = [k EXCEPT !.pc = "ready"]]
        /\ UNCHANGED <<ctor, client, inv, script, conn, channels>>

\* A method is called and tests its stub.  VortexClient raises when the stub
\* is None (AsyncVortexClient calls connect(), see ConnectCalled).
OperationStarts(t) ==
    LET k == task[t]
        c == k.client
    IN  /\ k.pc = "start" /\ Started(t)
        /\ k.what \in Methods
        /\ IF conn[c][StubOf(k.what)] # NoChannel
           THEN task' = [task EXCEPT ![t] = [k EXCEPT !.pc = "ready"]]
           ELSE /\ c = "VortexClient"
                /\ task' = [task EXCEPT ![t] =
                               TaskEnds(k, VortexConnectionError("Client not connected."))]
        /\ UNCHANGED <<ctor, client, inv, script, conn, channels>>

\* The methods that convert the response into the value they return; the
\* others return None.
ConvertsResponse(m) == m \notin {"create_collection", "delete_collection"}

\* What the handler 'except Exception' of a method raises for an exception
\* e that is no VortexException: VortexException(f"An unexpected pre-call
\* error occurred while <doing>: {e}").
UnexpectedPreCall(m, e) ==
    VortexException("An unexpected pre-call error occurred while " \o Doing(m) \o ": " \o e)

\* The handlers of a method on an exception r raised inside its try block:
\* a VortexException goes on as it is, any other Exception is wrapped.
HandledByMethod(m, r) ==
    IF IsInstance([cls |-> r.kind], "VortexException") THEN r
    ELSE IF IsInstance([cls |-> r.kind], "Exception") THEN UnexpectedPreCall(m, r.message)
    ELSE r

\* The method converts its arguments and builds the request.  ok: it does;
\* otherwise a conversion raises, and the handler of the method wraps what
\* was raised.
RequestBuilt(t, ok) ==
    LET k == task[t]
    IN  /\ k.pc = "ready"
        /\ task' = [task EXCEPT ![t] =
                IF ok THEN [k EXCEPT !.pc = "built", !.requests = @ + 1]
                ELSE TaskEnds(k, VortexException("An unexpected pre-call error occurred while "
                                                   \o Doing(k.what) \o ": invalid"))]
        /\ UNCHANGED <<ctor, client, inv, script, conn, channels>>

\* The method calls the executor with the request.
ExecutorInvoked(t) ==
    /\ task[t].pc = "built"
    /\ Invoke(task[t].inv)

\* Variant of OperationEnds: the response is returned whatever its
\* overall_error.
OperationEndsUnread(t, ok) ==
    LET k == task[t]
        f == inv[k.inv]
    IN  /\ k.pc = "built"
        /\ f.pc = "done"
        /\ task' = [task EXCEPT ![t] = TaskEnds(k,
                IF f.result.kind # "return" THEN HandledByMethod(k.what, f.result)
                ELSE IF ~ConvertsResponse(k.what) THEN Result("return", None, None, None)
                ELSE IF ok THEN f.result
                ELSE UnexpectedPreCall(k.what, "invalid"))]
        /\ UNCHANGED <<ctor, client, inv, script, conn, channels>>

\* Variant of OperationEnds: what the conversion of the response raised
\* leaves the method as it is.
OperationEndsUnwrapped(t, ok) ==
    LET k == task[t]
        f == inv[k.inv]
        response == f.outcomes[Len(f.outcomes)]
    IN  /\ k.pc = "built"
        /\ f.pc = "done"
        /\ task' = [task EXCEPT ![t] = TaskEnds(k,
                IF f.result.kind # "return" THEN HandledByMethod(k.what, f.result)
                ELSE IF OverallErrorVerb(k.what) # None /\ Truthy(response.details)
                     THEN OverallError(k.what, response)
                ELSE IF ~ConvertsResponse(k.what) THEN Result("return", None, None, None)
                ELSE IF ok THEN f.result
                ELSE Result("ValueError", "invalid", None, None))]
        /\ UNCHANGED <<ctor, client, inv, script, conn, channels>>

\* The executor has returned or raised.  upsert_points and delete_points
\* raise for a response with an overall_error; the handlers of the method
\* let every VortexException of the executor go on as it is and wrap any
\* other Exception that left it.  A method that returns a
\* value converts the response (ok: the conversion succeeds); the handler
\* 'except Exception' of the method wraps what the conversion raised.
OperationEnds(t, ok) ==
    LET k == task[t]
        f == inv[k.inv]
        response == f.outcomes[Len(f.outcomes)]
    IN  /\ k.pc = "built"
        /\ f.pc = "done"
        /\ task' = [task EXCEPT ![t] = TaskEnds(k,
                IF f.result.kind # "return" THEN HandledByMethod(k.what, f.result)
                ELSE IF OverallErrorVerb(k.what) # None /\ Truthy(response.details)
                     THEN OverallError(k.what, response)
                ELSE IF ~ConvertsResponse(k.what) THEN Result("return", None, None, None)
                ELSE IF ok THEN f.result
                ELSE UnexpectedPreCall(k.what, "invalid"))]
        /\ UNCHANGED <<ctor, client, inv, script, conn, channels>>

\* The constructor arguments of the clients whose operations are run.
OpsArgs ==
    {args \in ConstructorArgs :
        /\ args.max_retries \in {0, 1}
        /\ args.initial_backoff_ms = 1000
        /\ args.backoff_multiplier = 200
        /\ ~args.retry_jitter
        /\ args.retryable_status_codes = <<>>}

\* The programs run on a client: a method; close() and then a method; a with
\* statement around a method; and, on the suspending client, connect() and
\* then a with statement around a method, and connect(), close() and then a
\* method.
Programs(c) ==
    {"op", "close_op", "with_op"} \cup
    (IF c = "AsyncVortexClient" THEN {"connect_with_op", "connect_close_op"} ELSE {})

Program(p, c, m) ==
    CASE p = "op" -> [t \in {"t1"} |-> Task(c, m, NoGate, "a")]
      [] p = "close_op" ->
            [t \in {"t1", "t2"} |->
                IF t = "t1" THEN Task(c, "close", NoGate, None)
                ELSE Task(c, m, Gate("t1", "done"), "a")]
      [] p = "with_op" ->
            [t \in {"t1", "t2"} |->
                IF t = "t1" THEN Task(c, "with", NoGate, None)
                ELSE Task(c, m, Gate("t1", "inside"), "a")]
      [] p = "connect_with_op" ->
            [t \in {"t1", "t2", "t3"} |->
                IF t = "t1" THEN Task(c, "connect", NoGate, None)
                ELSE IF t = "t2" THEN Task(c, "with", Gate("t1", "done"), None)
                ELSE Task(c, m, Gate("t2", "inside"), "a")]
      [] p = "connect_close_op" ->
            [t \in {"t1", "t2", "t3"} |->
                IF t = "t1" THEN Task(c, "connect", NoGate, None)
                ELSE IF t = "t2" THEN Task(c, "close", Gate("t1", "done"), None)
                ELSE Task(c, m, Gate("t2", "done"), "a")]

\* One program on a client of either class.
InitOps ==
    /\ \E args \in OpsArgs :
          /\ ctor = [c \in Clients |-> args]
          /\ client = [c \in Clients |-> Construct(args)]
    /\ \E c \in Clients, m \in Methods :
       \E p \in Programs(c) :
          /\ inv = [i \in {"a"} |-> Frame(c, "call1", OperationName(m))]
          /\ task = Program(p, c, m)
    /\ script = [m \in Calls |-> <<>>]
    /\ conn = [c \in Clients |-> Constructed(c, 1)]
    /\ channels = <<"open">>

NextOps ==
    \/ \E t \in DOMAIN task, how \in ConnectOutcomes : ConnectCalled(t, how)
    \/ \E t \in DOMAIN task, how \in ConnectOutcomes : ConnectResumes(t, how)
    \/ \E t \in DOMAIN task : Close(t)
    \/ \E t \in DOMAIN task : CloseResumes(t)
    \/ \E t \in DOMAIN task : Enter(t)
    \/ \E t \in DOMAIN task : Exit(t)
    \/ \E t \in DOMAIN task : OperationStarts(t)
    \/ \E t \in DOMAIN task, ok \in BOOLEAN : RequestBuilt(t, ok)
    \/ \E t \in DOMAIN task : ExecutorInvoked(t)
    \/ \E i \in DOMAIN inv, o \in OpOutcomes, draw \in JitterDraws : CallReturns(i, o, draw)
    \/ \E i \in DOMAIN inv : SleepReturns(i)
    \/ \E t \in DOMAIN task, ok \in BOOLEAN : OperationEnds(t, ok)

SpecOps == InitOps /\ [][NextOps]_vars

(***************************************************************************)
(* C23.  On a VortexClient whose stub is None (after close(), say) every   *)
(* collection and point operation raises                                   *)
(* VortexConnectionError("Client not connected.") before it builds a       *)
(* request, and the remote call is invoked zero times: a method that       *)
(* starts with its stub None ends in that very step with that error, and   *)
(* a method that ended with that error built no request, never entered the *)
(* executor and left the call uninvoked.                                   *)
(***************************************************************************)
NotConnected == VortexConnectionError("Client not connected.")

C23_DisconnectedRaisesBeforeRequest ==
    [][\A t \in DOMAIN task :
          LET k == task[t]
              after == task'[t]
          IN  /\ (/\ k.what \in Methods
                  /\ k.client = "VortexClient"
                  /\ conn[k.client][StubOf(k.what)] = NoChannel
                  /\ k.pc = "start"
                  /\ after.pc # "start")
                 => /\ after.pc = "done"
                    /\ after.result = NotConnected
              /\ (/\ after.what \in Methods
                  /\ after.client = "VortexClient"
                  /\ after.pc = "done"
                  /\ after.result = NotConnected)
                 => /\ after.requests = 0
                    /\ inv'[after.inv].pc = "idle"
                    /\ inv'[after.inv].calls = 0
                    /\ script'[inv'[after.inv].grpc_call] = <<>>]_vars

\* close() was called on a VortexClient and search_points, called after it,
\* has raised the error without a request or a call.
C23_Witness ==
    \E t \in DOMAIN task :
        /\ task[t].what = "search_points"
        /\ task[t].client = "VortexClient"
        /\ task[t].gate # NoGate
        /\ task[task[t].gate.task].what = "close"
        /\ task[task[t].gate.task].closes = 1
        /\ conn["VortexClient"] = Disconnected
        /\ task[t].pc = "done"
        /\ task[t].result = NotConnected
        /\ task[t].requests = 0
        /\ inv[task[t].inv].calls = 0

(***************************************************************************)
(* C24.  AsyncVortexClient as an async context manager calls connect()     *)
(* exactly once on entry, so that inside the block the channel and both    *)
(* stubs are set, and close() exactly once on exit, also when the block    *)
(* raises; that close() closes the channel and, when the close of the     *)
(* channel has completed, sets the channel and both stubs to None.         *)
(***************************************************************************)
C24_ContextManagerConnectsAndCloses ==
    [][\A t \in DOMAIN task :
          LET k == task[t]
              after == task'[t]
              c == k.client
          IN  (k.what = "with" /\ c = "AsyncVortexClient") =>
                 /\ (k.pc # "inside" /\ after.pc = "inside") =>
                        /\ after.connects = 1
                        /\ after.closes = 0
                        /\ conn'[c]._channel # NoChannel
                        /\ conn'[c] = ConnectedOn(conn'[c]._channel)
                        /\ channels'[conn'[c]._channel] = "open"
                 /\ (k.pc = "inside" /\ after.pc = "inside") =>
                        /\ conn'[c] = conn[c]
                        /\ channels'[conn[c]._channel] = "open"
                 /\ (k.pc = "inside" /\ after.pc # "inside") =>
                        /\ after.pc = "in_close"
                        /\ \A b \in Body(t) : task[b].pc = "done"
                        /\ after.connects = 1
                        /\ after.closes = 1
                        /\ after.closing = conn[c]._channel
                 /\ (k.pc = "in_close" /\ after.pc # "in_close") =>
                        /\ after.pc = "done"
                        /\ after.connects = 1
                        /\ after.closes = 1
                        /\ k.closing = conn[c]._channel
                        /\ channels'[k.closing] = "closed"
                        /\ conn'[c] = Disconnected
                        /\ Raised(t) # {} => after.result \in Raised(t)]_vars

\* The block raised (the operation in it failed) and the context manager has
\* exited: one connect(), one close(), the channel closed, the fields None.
C24_Witness ==
    \E t \in DOMAIN task :
        /\ task[t].what = "with"
        /\ task[t].client = "AsyncVortexClient"
        /\ task[t].pc = "done"
        /\ task[t].connects = 1
        /\ task[t].closes = 1
        /\ task[t].result.kind = "VortexApiError"
        /\ \E b \in Body(t) : inv[task[b].inv].calls >= 1
        /\ conn["AsyncVortexClient"] = Disconnected
        /\ channels[Len(channels)] = "closed"

(***************************************************************************)
(* C25.  upsert_points and delete_points, handed by the executor a         *)
(* response whose overall_error is not empty, raise the API error          *)
(* "Overall error during upsert: <overall_error>" (delete: "... during     *)
(* delete: ...") and the remote call is not invoked again: the response is *)
(* the outcome of the last call made.  Both clients.                       *)
(***************************************************************************)
C25_OverallErrorRaises ==
    \A t \in DOMAIN task :
        LET k == task[t]
            f == inv[k.inv]
        IN  (/\ k.what \in {"upsert_points", "delete_points"}
             /\ k.pc = "done"
             /\ f.pc = "done"
             /\ f.result.kind = "return"
             /\ Truthy(f.outcomes[Len(f.outcomes)].details))
            => /\ k.result.kind = "VortexApiError"
               /\ k.result.message =
                     (IF k.what = "upsert_points" THEN "Overall error during upsert: "
                      ELSE "Overall error during delete: ")
                     \o f.outcomes[Len(f.outcomes)].details
               /\ k.result.status_code = StatusCodeERROR
               /\ f.calls = Len(f.outcomes)
               /\ script[f.grpc_call] = f.outcomes
               /\ \A n \in 1 .. Len(f.outcomes) - 1 : f.outcomes[n].cls # "return"

\* delete_points of the suspending client, retries enabled with one retry
\* allowed, was answered at once with an overall_error and has raised after
\* that one call.
C25_Witness ==
    \E t \in DOMAIN task :
        /\ task[t].what = "delete_points"
        /\ task[t].client = "AsyncVortexClient"
        /\ client[task[t].client].retries_enabled
        /\ client[task[t].client].max_retries = 1
        /\ task[t].pc = "done"
        /\ inv[task[t].inv].calls = 1
        /\ inv[task[t].inv].outcomes = <<ReturnedOverallError>>
        /\ task[t].result = Result("VortexApiError", "Overall error during delete: WAL is full",
                                   StatusCodeERROR, None)

(***************************************************************************)
(* C26.  With a policy that is not assigned during the invocation, every   *)
(* sleep is followed by a further attempt (the executor never sleeps and   *)
(* then gives up): an invocation that has slept n times and is not asleep  *)
(* has made n + 1 calls, and when it has ended, by value or by error, the  *)
(* number of its sleeps is the number of its calls minus one and at most   *)
(* max_retries.                                                            *)
(***************************************************************************)
C26_SleepsFollowedByAttempt ==
    \A i \in DOMAIN inv :
        LET f == inv[i]
        IN  /\ (f.pc = "in_call" \/ Done(f)) => Len(f.sleeps) = f.calls - 1
            /\ f.pc = "sleeping" => Len(f.sleeps) = f.calls
            /\ Done(f) => Len(f.sleeps) <= client[f.client].max_retries

(***************************************************************************)
(* C27.  With retries enabled the executor invokes the call at least once  *)
(* before it returns or raises, whatever policy the client was constructed *)
(* with, a negative max_retries included.                                  *)
(***************************************************************************)
C27_CalledAtLeastOnce ==
    \A i \in DOMAIN inv :
        (Done(inv[i]) /\ inv[i].retrying) => inv[i].calls >= 1

C29_BackoffMonotoneWithinBounds ==
    \A i \in DOMAIN inv :
        LET f == inv[i]
            self == client[f.client]
            lo == ToMs(self.initial_backoff_ms)
            hi == ToMs(self.max_backoff_ms)
            stored == f.backoffs \o <<f.current_backoff_ms>>
        IN  (/\ f.retrying
             /\ 0 <= self.initial_backoff_ms
             /\ self.initial_backoff_ms <= self.max_backoff_ms
             /\ self.backoff_multiplier >= Fixed.mult)
            => /\ stored[1] = lo
               /\ \A n \in 1 .. Len(stored) : lo <= stored[n] /\ stored[n] <= hi
               /\ \A n \in 1 .. Len(stored) - 1 :
                     /\ stored[n] <= stored[n + 1]
                     /\ stored[n] = hi => stored[n + 1] = hi

\* From 1000 ms with multiplier 2 and cap 2500 ms the backoff went 1000,
\* 2000, 2500 and, grown once more, is still 2500.
C29_Witness ==
    \E i \in DOMAIN inv :
        /\ inv[i].retrying
        /\ client[inv[i].client].initial_backoff_ms = 1000
        /\ client[inv[i].client].max_backoff_ms = 2500
        /\ inv[i].backoffs = <<100000, 200000, 250000>>
        /\ inv[i].pc = "in_call"
        /\ inv[i].current_backoff_ms = 250000

(***************************************************************************)
(* C30.  A VortexApiError raised by the call itself is re-raised by the    *)
(* executor unchanged: it is not retried (no sleep and no call follow it), *)
(* not wrapped into a VortexException, and its message, status_code and    *)
(* details are those the call raised it with; with retries enabled or      *)
(* disabled, at any attempt index.                                         *)
(***************************************************************************)
C30_ApiErrorPassesThrough ==
    \A i \in DOMAIN inv :
        LET f == inv[i]
        IN  \A k \in 1 .. Len(f.outcomes) :
                LET e == f.outcomes[k]
                IN  e.cls = "VortexApiError" =>
                       /\ Done(f)
                       /\ k = Len(f.outcomes)
                       /\ f.calls = k
                       /\ Len(f.sleeps) = k - 1
                       /\ f.result.kind = "VortexApiError"
                       /\ f.result.message = e.text
                       /\ f.result.status_code = e.code
                       /\ f.result.details = e.details

\* Retries enabled: the first attempt failed with a retryable code, the
\* second raised a VortexApiError with a status code and details, which is
\* what the invocation ended with.
C30_Witness ==
    \E i \in DOMAIN inv :
        /\ inv[i].retrying
        /\ inv[i].outcomes = <<AioUnavailable, CallApiErrorWithStatus>>
        /\ Len(inv[i].sleeps) = 1
        /\ inv[i].result = Result("VortexApiError", "Overall error during upsert: WAL is full",
                                  StatusCodeERROR, "WAL is full")

\* Retries disabled: the call raised a VortexApiError, which is what the
\* invocation ended with.
C30_WitnessDisabled ==
    \E i \in DOMAIN inv :
        /\ ~client[inv[i].client].retries_enabled
        /\ inv[i].outcomes = <<CallApiErrorWithStatus>>
        /\ inv[i].result = Result("VortexApiError", "Overall error during upsert: WAL is full",
                                  StatusCodeERROR, "WAL is full")

(***************************************************************************)
(* C31.  A classified failure that exposes no callable code accessor is    *)
(* treated as non-retryable: with retries enabled the executor raises the  *)
(* API error "Failed to <operation_name>" after that attempt, with no      *)
(* sleep and no further call, at whatever attempt index it occurs and      *)
(* whatever the retryable codes are.                                       *)
(***************************************************************************)
C31_NoCodeIsNotRetried ==
    \A i \in DOMAIN inv :
        LET f == inv[i]
        IN  \A k \in 1 .. Len(f.outcomes) :
                LET e == f.outcomes[k]
                IN  (f.retrying /\ ClassifiedBy(f.client, e) /\ e.code = None) =>
                       /\ Done(f)
                       /\ k = Len(f.outcomes)
                       /\ f.calls = k
                       /\ Len(f.sleeps) = k - 1
                       /\ f.result.kind = "VortexApiError"
                       /\ f.result.message = "Failed to " \o f.operation_name
                       /\ f.result.status_code = None

\* The suspending executor, two retries left: the second attempt raised an
\* AioRpcError without a code accessor and the invocation ended there.
C31_Witness ==
    \E i \in DOMAIN inv :
        /\ inv[i].client = "AsyncVortexClient"
        /\ inv[i].retrying
        /\ client[inv[i].client].max_retries = 3
        /\ inv[i].outcomes = <<AioUnavailable, AioBare>>
        /\ inv[i].pc = "done"
        /\ inv[i].calls = 2
        /\ Len(inv[i].sleeps) = 1
        /\ inv[i].result.kind = "VortexApiError"

\* The blocking executor: the first attempt raised a bare grpc.RpcError.
C31_WitnessBlocking ==
    \E i \in DOMAIN inv :
        /\ inv[i].client = "VortexClient"
        /\ inv[i].retrying
        /\ client[inv[i].client].max_retries >= 1
        /\ inv[i].outcomes = <<RpcBare>>
        /\ inv[i].pc = "done"
        /\ inv[i].result = Result("VortexApiError", "Failed to test_op", None, "gRPC failure")

(***************************************************************************)
(* C32.  A method of AsyncVortexClient called while its stub is None first *)
(* runs connect() and only then goes on to the remote call, which it makes *)
(* with its stub bound to an open channel; it raises VortexConnectionError *)
(* only if the stub is still None after the connect.  So after close() the *)
(* next method reconnects, where the same sequence on VortexClient raises  *)
(* VortexConnectionError without a connect.                                *)
(***************************************************************************)
C32_AsyncReconnects ==
    [][\A t \in DOMAIN task :
          LET k == task[t]
              after == task'[t]
              c == k.client
              stub == StubOf(k.what)
          IN  k.what \in Methods =>
                 /\ (/\ c = "AsyncVortexClient"
                     /\ k.pc = "start" /\ after.pc # "start"
                     /\ conn[c][stub] = NoChannel)
                    => /\ after.connects = 1
                       /\ after.pc \in {"ready", "done"}
                       /\ after.pc = "ready" =>
                             /\ conn'[c][stub] # NoChannel
                             /\ conn'[c] = ConnectedOn(Len(channels) + 1)
                             /\ channels'[conn'[c][stub]] = "open"
                       /\ after.pc = "done" =>
                             /\ after.result.kind = "VortexConnectionError"
                             /\ conn'[c][stub] = NoChannel
                 /\ (c = "AsyncVortexClient" /\ after.pc \in {"ready", "built"})
                    => /\ conn'[c][stub] # NoChannel
                       /\ channels'[conn'[c][stub]] = "open"
                 /\ (c = "AsyncVortexClient" /\ inv'[k.inv].calls > inv[k.inv].calls)
                    => /\ k.pc = "built"
                       /\ conn[c][stub] # NoChannel
                 /\ (c = "AsyncVortexClient" /\ after.pc = "done"
                        /\ after.result.kind = "VortexConnectionError")
                    => /\ after.connects = 1
                       /\ after.requests = 0
                       /\ inv'[after.inv].calls = 0
                       /\ conn'[c][stub] = NoChannel
                 /\ (c = "VortexClient" /\ k.pc = "start" /\ after.pc # "start"
                        /\ conn[c][stub] = NoChannel)
                    => /\ after.connects = 0
                       /\ after.pc = "done"
                       /\ after.result.kind = "VortexConnectionError"
                       /\ conn' = conn]_vars

\* On the suspending client: connect(), close(), then upsert_points, which
\* connected again (the third channel, open; the second closed) and returned
\* what the remote call returned.
C32_Witness ==
    \E t \in DOMAIN task :
        /\ task[t].what = "upsert_points"
        /\ task[t].client = "AsyncVortexClient"
        /\ task[t].gate # NoGate
        /\ task[task[t].gate.task].what = "close"
        /\ task[t].pc = "done"
        /\ task[t].connects = 1
        /\ task[t].requests = 1
        /\ task[t].result.kind = "return"
        /\ inv[task[t].inv].calls >= 1
        /\ channels = <<"open", "closed", "open">>
        /\ conn["AsyncVortexClient"] = ConnectedOn(3)

(***************************************************************************)
(* Tasks that call connect() on one AsyncVortexClient at the same time.    *)
(***************************************************************************)
\* connect() has returned in task "t0"; tasks "t1" and "t2" then each call
\* connect(), and task "t3" calls a method once "t1" has ended.  The steps
\* of "t1", "t2" and "t3" interleave at the points where a task is
\* suspended: the close() of the old channel, the remote call, the sleep.
\* OverlapMethods bounds the methods "t3" calls: one that converts no request
\* and one that converts both request and response.
OverlapMethods == {"list_collections", "search_points"}

InitOverlap ==
    /\ \E args \in OpsArgs :
          /\ ctor = [c \in Clients |-> args]
          /\ client = [c \in Clients |-> Construct(args)]
    /\ \E m \in OverlapMethods :
          /\ inv = [i \in {"a"} |-> Frame("AsyncVortexClient", "call1", OperationName(m))]
          /\ task = [t \in {"t0", "t1", "t2", "t3"} |->
                        IF t = "t0" THEN Task("AsyncVortexClient", "connect", NoGate, None)
                        ELSE IF t = "t3"
                             THEN Task("AsyncVortexClient", m, Gate("t1", "done"), "a")
                             ELSE Task("AsyncVortexClient", "connect", Gate("t0", "done"), None)]
    /\ script = [m \in Calls |-> <<>>]
    /\ conn = [c \in Clients |-> Constructed(c, 1)]
    /\ channels = <<"open">>

NextOverlap ==
    \/ \E t \in DOMAIN task, how \in ConnectOutcomes : ConnectCalled(t, how)
    \/ \E t \in DOMAIN task, how \in ConnectOutcomes : ConnectResumes(t, how)
    \/ \E t \in DOMAIN task : OperationStarts(t)
    \/ \E t \in DOMAIN task, ok \in BOOLEAN : RequestBuilt(t, ok)
    \/ \E t \in DOMAIN task : ExecutorInvoked(t)
    \/ \E i \in DOMAIN inv, o \in OpOutcomes, draw \in JitterDraws : CallReturns(i, o, draw)
    \/ \E i \in DOMAIN inv : SleepReturns(i)
    \/ \E t \in DOMAIN task, ok \in BOOLEAN : OperationEnds(t, ok)

\* The event loop runs every task that can go on: a connect() called is
\* entered, a close() of a channel, a remote call and a sleep that are awaited
\* complete, and the task that awaited them is resumed.
FairnessOverlap == WF_vars(NextOverlap)

SpecOverlap == InitOverlap /\ [][NextOverlap]_vars /\ FairnessOverlap

(***************************************************************************)
(* C33.  When two connect() calls on the same already-connected            *)
(* AsyncVortexClient overlap, both suspended while closing the old         *)
(* channel, no channel leaks: from then on, once both have finished,       *)
(* every channel that was opened is the current channel of its client or   *)
(* has been closed, and the stubs of the client are bound to its current   *)
(* channel.  Stated of the calls that return; a connect() that raises is   *)
(* not meant.                                                              *)
(***************************************************************************)
BothSuspended == task["t1"].pc = "closing" /\ task["t2"].pc = "closing"

\* Both calls of connect() have returned, neither has raised.
BothFinished ==
    \A t \in {"t1", "t2"} : task[t].pc = "done" /\ task[t].result.kind = "return"

NoChannelLeaked ==
    /\ \A ch \in 1 .. Len(channels) :
          \/ channels[ch] = "closed"
          \/ \E c \in Clients : conn[c]._channel = ch
    /\ \A c \in Clients : conn[c] = ConnectedOn(conn[c]._channel)

C33_OverlappingConnectLeaksNothing == [](BothSuspended => [](BothFinished => NoChannelLeaked))

(***************************************************************************)
(* C34.  Every error a collection or point operation of VortexClient       *)
(* raises is of the VortexException family (VortexConnectionError,         *)
(* VortexApiError or VortexException): an error already of the family      *)
(* passes through unchanged, and any other exception raised while the      *)
(* request is built, the call is executed or the response is converted is  *)
(* wrapped into VortexException.  Stated for a method that has ended: what *)
(* it raised is of the family; an error of the family raised by the call   *)
(* is what the method raised, class, message and fields; an exception of   *)
(* another class raised by the call, by the building of the request or by  *)
(* the conversion of the response left the method as an error of the       *)
(* family.                                                                 *)
(***************************************************************************)
VortexExceptionFamily == {"VortexConnectionError", "VortexApiError", "VortexException"}

\* The ended methods of VortexClient.
EndedOperations ==
    {t \in DOMAIN task :
        task[t].what \in Methods /\ task[t].client = "VortexClient" /\ task[t].pc = "done"}

\* The last call of the executor that method task t made raised an error
\* of the VortexException family.
CallRaisedFamilyError(t) ==
    LET f == inv[task[t].inv]
    IN  /\ task[t].requests = 1
        /\ Done(f) /\ f.outcomes # <<>>
        /\ IsInstance(Last(f.outcomes), "VortexException")

C34_FamilyErrorsPassUnchanged ==
    \A t \in EndedOperations :
        LET k == task[t]
            e == Last(inv[k.inv].outcomes)
        IN  /\ k.result.kind \in VortexExceptionFamily \cup {"return"}
            /\ CallRaisedFamilyError(t) =>
                  k.result = Result(e.cls, e.text, e.code, e.details)

(***************************************************************************)
(* C34, amended.  Every error a collection or point operation of           *)
(* VortexClient raises is of the VortexException family.  The              *)
(* VortexConnectionError of the stub test, a VortexApiError or             *)
(* VortexException raised by the executor, a VortexApiError raised by the  *)
(* call and the VortexApiError for an overall_error pass through           *)
(* unchanged.  Any other exception raised by the call that is no           *)
(* classified failure, a VortexException that is no VortexApiError         *)
(* (VortexTimeoutError) included, is wrapped by the executor into a new    *)
(* VortexException; an exception raised while the request is built or the  *)
(* response is converted, and one of another class that left the           *)
(* executor, is wrapped by the method into VortexException.  Interrupts,   *)
(* which are no Exception, are not meant.                                  *)
(***************************************************************************)
C34_OperationsRaiseVortexExceptionsOnly ==
    \A t \in EndedOperations :
        LET k == task[t]
            f == inv[k.inv]
        IN  /\ k.result.kind \in VortexExceptionFamily \cup {"return"}
            /\ k.requests = 0 =>
                  /\ k.result \in {VortexConnectionError("Client not connected."),
                                   UnexpectedPreCall(k.what, "invalid")}
                  /\ f.calls = 0
            /\ k.requests = 1 =>
                  /\ Done(f)
                  /\ f.result.kind \in {"VortexApiError", "VortexException"} =>
                        k.result = f.result
                  /\ f.result.kind \notin {"VortexApiError", "VortexException", "return"} =>
                        k.result = UnexpectedPreCall(k.what, f.result.message)
                  /\ (f.outcomes # <<>> /\ Last(f.outcomes).cls = "VortexApiError") =>
                        k.result = Reraised(Last(f.outcomes))
                  /\ (f.outcomes # <<>>
                      /\ Last(f.outcomes).cls \in {"VortexTimeoutError", "ValueError"}) =>
                        k.result = VortexException(
                            "An unexpected error occurred during " \o f.operation_name
                                \o ": " \o Last(f.outcomes).text)
                  /\ f.result.kind = "return" =>
                        \/ /\ ConvertsResponse(k.what)
                           /\ k.result = f.result
                        \/ /\ ~ConvertsResponse(k.what)
                           /\ k.result = Result("return", None, None, None)
                        \/ /\ OverallErrorVerb(k.what) # None
                           /\ k.result = OverallError(k.what, Last(f.outcomes))
                        \/ /\ ConvertsResponse(k.what)
                           /\ k.result = UnexpectedPreCall(k.what, "invalid")

\* get_points on a VortexClient: the call raised a VortexTimeoutError at the
\* second attempt, and the method raised the VortexException the executor
\* wrapped it into.
C34_Witness ==
    \E t \in EndedOperations :
        /\ task[t].what = "get_points"
        /\ inv[task[t].inv].calls = 2
        /\ CallRaisedFamilyError(t)
        /\ Last(inv[task[t].inv].outcomes) = CallTimeoutError
        /\ task[t].result = VortexException(
               "An unexpected error occurred during get points from 'col': Deadline exceeded")

\* search_points on a VortexClient: the call returned at the second attempt,
\* the conversion of the response raised, and the method raised the
\* VortexException that wraps it.
C34_WitnessConversion ==
    \E t \in EndedOperations :
        /\ task[t].what = "search_points"
        /\ task[t].requests = 1
        /\ inv[task[t].inv].result.kind = "return"
        /\ inv[task[t].inv].calls = 2
        /\ task[t].result = VortexException(
               "An unexpected pre-call error occurred while searching points in 'col': invalid")

\* list_collections on a VortexClient: the code() of the failure raised, the
\* RuntimeError left the executor, and the method wrapped it.
C34_WitnessEscaped ==
    \E t \in EndedOperations :
        /\ task[t].what = "list_collections"
        /\ inv[task[t].inv].result.kind = "RuntimeError"
        /\ task[t].result = VortexException(
               "An unexpected pre-call error occurred while listing collections: code failed")

====
